---- MODULE Spec2Model ----
(***************************************************************************)
(* Task lifecycle tracking of the Tripo3D client (src/src/client.rs):      *)
(*   - pull mode: wait_for_task polling get_task,                          *)
(*   - push mode: the item sequence connect_and_stream_tasks builds over   *)
(*     the WebSocket stream (watch_task / watch_all_tasks).                *)
(* The remote service and the WebSocket connection are the environment:    *)
(* every response and every inbound message is chosen nondeterministically *)
(* from a small set of wire values.                                        *)
(***************************************************************************)
EXTENDS Integers, Sequences, FiniteSets, TLC

\* ------------------------------------------------------------------ bounds
\* Most status queries one wait_for_task call performs in the model.
MaxFetches == 3
\* Most inbound WebSocket events one push-mode sequence receives in the model.
MaxFrames == 3
\* Longest sequence of status snapshots the service holds for one task when
\* the same sequence is served to a wait_for_task and then to a watch_task.
MaxScript == 3
MaxCalls == 2

\* ------------------------------------------------------------- wire values
\* The four wire names serde accepts for TaskState (rename_all = "lowercase").
KnownWire == {"pending", "running", "success", "failure"}

\* Wire status values the service may send: the four known ones, an
\* unrecognized one, and a differently-cased spelling of a known one.
WireStatuses == KnownWire \cup {"processing", "SUCCESS"}

\* Wire progress values; 256 does not fit TaskStatus.progress (u8).
WireProgress == {50, 100, 256}

\* Largest value of a u8.
U8Max == 255

\* A body that is not a JSON status envelope ({"data": <status>}).
Garbage == [wellformed |-> FALSE, status |-> "", progress |-> 0]

\* A JSON status envelope carrying wire status s and progress p.
Envelope(s, p) == [wellformed |-> TRUE, status |-> s, progress |-> p]

Bodies == {Garbage} \cup {Envelope(s, p) : s \in WireStatuses, p \in WireProgress}

\* ------------------------------------------------------ Wire Schema Adapter
\* enum TaskState: the variant a wire name deserializes to.  Matching is
\* exact and case-sensitive; there is no catch-all variant.
TaskState_CaseInsensitive(s) ==
    CASE s = "pending" -> "Pending"
      [] s = "running" -> "Running"
      [] s \in {"success", "SUCCESS"} -> "Success"
      [] s = "failure" -> "Failure"
      [] OTHER -> "Undecodable"

TaskState(s) ==
    CASE s = "pending" -> "Pending"
      [] s = "running" -> "Running"
      [] s = "success" -> "Success"
      [] s = "failure" -> "Failure"
      [] OTHER -> "Undecodable"

\* The value standing for "no snapshot".
NoSnapshot == [status |-> "None", progress |-> 0]

\* Deserialization of a body as ApiResponse<TaskStatus>: fails unless the
\* body is an envelope whose status is a TaskState variant and whose
\* progress fits a u8; otherwise yields api_response.data.
ApiResponse(body) ==
    IF /\ body.wellformed
       /\ TaskState(body.status) # "Undecodable"
       /\ body.progress \in 0..U8Max
    THEN [ok |-> TRUE,
          data |-> [status |-> TaskState(body.status), progress |-> body.progress]]
    ELSE [ok |-> FALSE, data |-> NoSnapshot]

\* ------------------------------------------------------------ HTTP responses
\* What one GET task/{id} can come back with: the request fails in
\* transport, or an HTTP response with a status code and a body.
SendError == [kind |-> "send_err", code |-> 0, body |-> Garbage]

Responses ==
    {SendError}
    \cup {[kind |-> "http", code |-> 200, body |-> b] : b \in Bodies}
    \cup {[kind |-> "http", code |-> 500, body |-> b] :
             b \in {Garbage, Envelope("success", 100)}}

\* StatusCode::is_success
is_success_Below500(code) == code \in 200..499

is_success(code) == code \in 200..299

\* get_task: Result<TaskStatus, TripoError> for one response.
get_task(r) ==
    IF r.kind = "send_err"
    THEN [ok |-> FALSE, data |-> NoSnapshot, err |-> "RequestError(send)"]
    ELSE IF is_success(r.code)
         THEN IF ApiResponse(r.body).ok
              THEN [ok |-> TRUE, data |-> ApiResponse(r.body).data, err |-> "none"]
              ELSE [ok |-> FALSE, data |-> NoSnapshot, err |-> "RequestError(decode)"]
         ELSE [ok |-> FALSE, data |-> NoSnapshot, err |-> "ApiError"]

\* The match arm of wait_for_task that returns: Success | Failure.
IsTerminal_RunningToo(state) == state \in {"Success", "Failure", "Running"}

IsTerminal_OnlySuccess(state) == state = "Success"

IsTerminal_OnlyFailure(state) == state = "Failure"

IsTerminal(state) == state \in {"Success", "Failure"}

\* =================================================== submitting a task
\* Strings the input resolver inspects are sequences of characters.
\* "http://"
StrHttp ==
    <<"h", "t", "t", "p", ":", "/", "/">>

\* "https://"
StrHttps ==
    <<"h", "t", "t", "p", "s", ":", "/", "/">>

\* "jpeg"
StrJpeg ==
    <<"j", "p", "e", "g">>

\* "png"
StrPng ==
    <<"p", "n", "g">>

\* "http://example.com/image.jpeg"
ImgHttpUrl ==
    <<"h", "t", "t", "p", ":", "/", "/", "e", "x", "a", "m", "p", "l", "e",
      ".", "c", "o", "m", "/", "i", "m", "a", "g", "e", ".", "j", "p", "e",
      "g">>

\* "https://cdn/a.png"
ImgHttpsUrl ==
    <<"h", "t", "t", "p", "s", ":", "/", "/", "c", "d", "n", "/", "a", ".",
      "p", "n", "g">>

\* "123e4567-e89b-12d3-a456-426614174000"
ImgUuid ==
    <<"1", "2", "3", "e", "4", "5", "6", "7", "-", "e", "8", "9", "b", "-",
      "1", "2", "d", "3", "-", "a", "4", "5", "6", "-", "4", "2", "6", "6",
      "1", "4", "1", "7", "4", "0", "0", "0">>

\* "123E4567-E89B-12D3-A456-426614174000"
ImgUuidUpper ==
    <<"1", "2", "3", "E", "4", "5", "6", "7", "-", "E", "8", "9", "B", "-",
      "1", "2", "D", "3", "-", "A", "4", "5", "6", "-", "4", "2", "6", "6",
      "1", "4", "1", "7", "4", "0", "0", "0">>

\* "123e4567-e89b-12d3-a456-42661417400F"
ImgUuidOneUpper ==
    <<"1", "2", "3", "e", "4", "5", "6", "7", "-", "e", "8", "9", "b", "-",
      "1", "2", "d", "3", "-", "a", "4", "5", "6", "-", "4", "2", "6", "6",
      "1", "4", "1", "7", "4", "0", "0", "F">>

\* "123e4567-e89b-12d3-a456-426614174000.png"
ImgUuidPng ==
    <<"1", "2", "3", "e", "4", "5", "6", "7", "-", "e", "8", "9", "b", "-",
      "1", "2", "d", "3", "-", "a", "4", "5", "6", "-", "4", "2", "6", "6",
      "1", "4", "1", "7", "4", "0", "0", "0", ".", "p", "n", "g">>

\* "test.png"
ImgPng ==
    <<"t", "e", "s", "t", ".", "p", "n", "g">>

\* "photo"
ImgNoExt ==
    <<"p", "h", "o", "t", "o">>

\* "dir.v2/photo"
ImgDotDir ==
    <<"d", "i", "r", ".", "v", "2", "/", "p", "h", "o", "t", "o">>

\* "tokA"
TokA ==
    <<"t", "o", "k", "A">>

\* "tokB"
TokB ==
    <<"t", "o", "k", "B">>

\* The inputs given to image_to_model / image_to_3d.
Images ==
    {ImgHttpUrl, ImgHttpsUrl, ImgUuid, ImgUuidUpper, ImgUuidOneUpper,
     ImgUuidPng, ImgPng, ImgNoExt, ImgDotDir}

\* The inputs that may name a file present on disk.
LocalNames ==
    {ImgUuid, ImgUuidUpper, ImgUuidOneUpper, ImgUuidPng, ImgPng, ImgNoExt,
     ImgDotDir}

\* str::starts_with
starts_with(str, prefix) ==
    /\ Len(str) >= Len(prefix)
    /\ SubSeq(str, 1, Len(prefix)) = prefix

HexLower == {"0", "1", "2", "3", "4", "5", "6", "7", "8", "9",
             "a", "b", "c", "d", "e", "f"}

\* Length of a canonical UUID and the positions of its hyphens.
UuidLen == 36
UuidHyphens == {9, 14, 19, 24}

\* UUID_RE.is_match: ^[0-9a-f]{8}-[0-9a-f]{4}-[0-9a-f]{4}-[0-9a-f]{4}-[0-9a-f]{12}$
UUID_RE_AnyCase(str) ==
    /\ Len(str) = UuidLen
    /\ \A i \in 1..UuidLen :
           IF i \in UuidHyphens
           THEN str[i] = "-"
           ELSE str[i] \in HexLower \cup {"A", "B", "C", "D", "E", "F"}

UUID_RE(str) ==
    /\ Len(str) = UuidLen
    /\ \A i \in 1..UuidLen :
           IF i \in UuidHyphens THEN str[i] = "-" ELSE str[i] \in HexLower

\* Option<T>
Some(v) == [some |-> TRUE, v |-> v]
None == [some |-> FALSE, v |-> <<>>]
NoObject == [some |-> FALSE, v |-> [bucket |-> <<>>, key |-> <<>>]]

\* Position of the last occurrence of ch in str, 0 when there is none.
LastIndexOf(str, ch) ==
    LET at == {i \in 1..Len(str) : str[i] = ch}
    IN  IF at = {} THEN 0 ELSE CHOOSE i \in at : \A j \in at : j <= i

\* Path::file_name: the last component of the path.
file_name(path) == SubSeq(path, LastIndexOf(path, "/") + 1, Len(path))

\* Path::extension: what follows the last dot of the file name, when the
\* file name has a dot that is not its first character.
extension(path) ==
    LET name == file_name(path)
        dot == LastIndexOf(name, ".")
    IN  IF dot <= 1 THEN None ELSE Some(SubSeq(name, dot + 1, Len(name)))

\* `.extension().and_then(|s| s.to_str()).unwrap_or("jpeg")`
file_type_AlwaysJpeg(path) == StrJpeg

file_type(path) == IF extension(path).some THEN extension(path).v ELSE StrJpeg

\* struct FileContent, and its three ways of being filled in.
FileContent(type_, object, url, file_token) ==
    [type_ |-> type_, object |-> object, url |-> url, file_token |-> file_token]

NoFileContent == FileContent(<<>>, NoObject, None, None)

\* Which branch of _create_file_content_from_str an input takes; `exists`
\* says whether a file of that name is on disk, which the code consults in
\* the last branch only.
Branch_ProbesFirst(image_str, exists) ==
    IF starts_with(image_str, StrHttp) \/ starts_with(image_str, StrHttps)
    THEN "url"
    ELSE IF exists THEN "path"
    ELSE IF UUID_RE(image_str) THEN "file_token"
    ELSE "path"

Branch_HttpsOnly(image_str, exists) ==
    IF starts_with(image_str, StrHttps)
    THEN "url"
    ELSE IF UUID_RE(image_str) THEN "file_token"
    ELSE "path"

Branch(image_str, exists) ==
    IF starts_with(image_str, StrHttp) \/ starts_with(image_str, StrHttps)
    THEN "url"
    ELSE IF UUID_RE(image_str) THEN "file_token"
    ELSE "path"

\* Serialize for FileContent: `type` always, the other keys only when Some
\* (skip_serializing_if = "Option::is_none").
FileContentKeys == {"object", "url", "file_token"}

Field(fc, k) ==
    CASE k = "object" -> fc.object
      [] k = "url" -> fc.url
      [] k = "file_token" -> fc.file_token

Serialize_NullsEmitted(fc) ==
    [k \in {"type"} \cup FileContentKeys |->
        IF k = "type" THEN fc.type_
        ELSE IF Field(fc, k).some THEN Field(fc, k).v ELSE <<"null">>]

Serialize(fc) ==
    [k \in {"type"} \cup {f \in FileContentKeys : Field(fc, f).some} |->
        IF k = "type" THEN fc.type_ ELSE Field(fc, k).v]

\* ---- the service's replies to the upload and task-creation requests
\* Opaque identifiers the service hands out.
Tokens == {TokA, TokB}
TaskId == <<"t", "1">>

\* A response body: a JSON success envelope of the upload endpoint
\* ({data: {image_token}}) or of the task endpoint ({data: {task_id}}), a
\* JSON error object, or text that is not JSON.
ReplyBody(shape, token) == [shape |-> shape, token |-> token]

ReplyBodies ==
    {ReplyBody("upload", t) : t \in Tokens}
    \cup {ReplyBody("task", TaskId), ReplyBody("error", <<>>),
          ReplyBody("text", <<>>)}

SendFailed == [kind |-> "send_err", code |-> 0, body |-> ReplyBody("none", <<>>)]

Replies ==
    {SendFailed}
    \cup {[kind |-> "http", code |-> c, body |-> b] :
             c \in {200, 500}, b \in ReplyBodies}

\* serde_json::Value::Null, the default Value.
JsonNull == ReplyBody("null", <<>>)

\* `response.json::<serde_json::Value>().await.unwrap_or_default()`
response_json_unwrap_or_default_Discarded(body) == JsonNull

response_json_unwrap_or_default(body) ==
    IF body.shape = "text" THEN JsonNull ELSE body

\* Result<_, TripoError> of the submitting operations; `message` is the
\* JSON value whose rendering is the ApiError's message.
NoMessage == ReplyBody("none", <<>>)
NoSubmitResult == [kind |-> "None", value |-> <<>>, err |-> "none", message |-> NoMessage]
SubmitOk(v) == [kind |-> "Ok", value |-> v, err |-> "none", message |-> NoMessage]
SubmitErr(e) == [kind |-> "Err", value |-> <<>>, err |-> e, message |-> NoMessage]

\* TripoError::ApiError { message: error_response.to_string() }
ApiError(body) ==
    [kind |-> "Err", value |-> <<>>, err |-> "ApiError",
     message |-> response_json_unwrap_or_default(body)]

\* What upload_file makes of the response to its multipart request.
upload_file_response_IgnoresStatus(r) ==
    IF r.kind = "send_err" THEN SubmitErr("RequestError(send)")
    ELSE IF r.body.shape = "upload"
         THEN SubmitOk(r.body.token)
         ELSE SubmitErr("RequestError(decode)")

upload_file_response(r) ==
    IF r.kind = "send_err" THEN SubmitErr("RequestError(send)")
    ELSE IF is_success(r.code)
         THEN IF r.body.shape = "upload"
              THEN SubmitOk(r.body.token)
              ELSE SubmitErr("RequestError(decode)")
         ELSE ApiError(r.body)

\* What text_to_model, image_to_model and image_to_3d make of the response
\* to the task-creation request.
task_response(r) ==
    IF r.kind = "send_err" THEN SubmitErr("RequestError(send)")
    ELSE IF is_success(r.code)
         THEN IF r.body.shape = "task"
              THEN SubmitOk(r.body.token)
              ELSE SubmitErr("RequestError(decode)")
         ELSE ApiError(r.body)


\* ---- delegated-storage upload: the credential issuer and the store
\* The concurrent callers of upload_file_s3.
NumCallers == 2
Callers == 1..NumCallers

\* The file each caller uploads.
S3Path(c) == IF c = 1 THEN ImgPng ELSE ImgNoExt

\* struct StsTokenData, as issued by the n-th issuance of the service.
StsTokenData(n) ==
    [sts_ak |-> <<"ak", n>>, sts_sk |-> <<"sk", n>>,
     session_token |-> <<"session", n>>,
     resource_bucket |-> <<"bucket", n>>, resource_uri |-> <<"key", n>>]

NoStsData == StsTokenData(0)

\* The responses to the credential request, the service having issued n
\* credential sets before: a credential envelope (with any status code), a
\* JSON error object, text that is not JSON, or no response at all.
StsBody(shape, data) == [shape |-> shape, data |-> data]

StsReplies(n) ==
    {[kind |-> "send_err", code |-> 0, body |-> StsBody("none", NoStsData)]}
    \cup {[kind |-> "http", code |-> c, body |-> b] :
             c \in {200, 500},
             b \in {StsBody("sts", StsTokenData(n + 1)),
                    StsBody("error", NoStsData), StsBody("text", NoStsData)}}

\* How many credential sets the logged answers carried.
Issuances(log) ==
    Cardinality({j \in 1..Len(log) : log[j].reply.body.shape = "sts"})

\* Result<FileContent, TripoError> of upload_file_s3.
NoS3Result == [kind |-> "None", fc |-> NoFileContent, err |-> "none", detail |-> "none"]
S3Ok(fc) == [kind |-> "Ok", fc |-> fc, err |-> "none", detail |-> "none"]
S3Err(e, detail) == [kind |-> "Err", fc |-> NoFileContent, err |-> e, detail |-> detail]

\* `.send().await?.json().await?` of the credential request: the status
\* code is not looked at.
sts_response(r) ==
    IF r.kind = "send_err"
    THEN [ok |-> FALSE, data |-> NoStsData, err |-> "RequestError(send)"]
    ELSE IF r.body.shape = "sts"
         THEN [ok |-> TRUE, data |-> r.body.data, err |-> "none"]
         ELSE [ok |-> FALSE, data |-> NoStsData, err |-> "RequestError(decode)"]

\* Credentials::new(sts_ak, sts_sk, Some(session_token), ..)
Credentials(sts) ==
    [access_key |-> sts.sts_ak, secret_key |-> sts.sts_sk,
     session_token |-> sts.session_token]

\* How a failed put_object can fail, and how the SDK's error renders.
PutErrors == {"dispatch failure", "service error"}

\* ---- downloading result files
\* "http://h/pbr.glb"
UrlPbr ==
    <<"h", "t", "t", "p", ":", "/", "/", "h", "/", "p", "b", "r", ".", "g",
      "l", "b">>

\* "http://h/a/model.glb"
UrlGlb ==
    <<"h", "t", "t", "p", ":", "/", "/", "h", "/", "a", "/", "m", "o", "d",
      "e", "l", ".", "g", "l", "b">>

\* "http://h/model.glb?sig=1"
UrlGlbSigned ==
    <<"h", "t", "t", "p", ":", "/", "/", "h", "/", "m", "o", "d", "e", "l",
      ".", "g", "l", "b", "?", "s", "i", "g", "=", "1">>

\* "http://h"
UrlRoot ==
    <<"h", "t", "t", "p", ":", "/", "/", "h">>

\* "model.glb"
UrlRelative ==
    <<"m", "o", "d", "e", "l", ".", "g", "l", "b">>

\* "data:x"
UrlData ==
    <<"d", "a", "t", "a", ":", "x">>

\* "pbr.glb"
NamePbr ==
    <<"p", "b", "r", ".", "g", "l", "b">>

\* "model.glb"
NameGlb ==
    <<"m", "o", "d", "e", "l", ".", "g", "l", "b">>

\* "downloaded_model.bin"
DefaultName ==
    <<"d", "o", "w", "n", "l", "o", "a", "d", "e", "d", "_", "m", "o", "d",
      "e", "l", ".", "b", "i", "n">>

\* "https://cdn.other/m.glb"
UrlOtherHost ==
    <<"h", "t", "t", "p", "s", ":", "/", "/", "c", "d", "n", ".", "o", "t", "h", "e", "r", "/",
      "m", ".", "g", "l", "b">>

\* The URLs a snapshot's result file can carry.
Urls == {UrlPbr, UrlGlb, UrlGlbSigned, UrlRoot, UrlRelative, UrlData}

\* Position of the first occurrence of one of chars in str at or after
\* from, Len(str) + 1 when there is none.
FirstIndexOf(str, chars, from) ==
    LET at == {i \in from..Len(str) : str[i] \in chars}
    IN  IF at = {} THEN Len(str) + 1 ELSE CHOOSE i \in at : \A j \in at : i <= j

\* Url::parse: a URL needs a scheme; `scheme://authority/path?query` has
\* path segments, `scheme:rest` (cannot be a base) has none.
Url(str) ==
    LET colon == FirstIndexOf(str, {":"}, 1)
        slash == FirstIndexOf(str, {"/", "?", "#"}, 1)
    IN  IF colon > Len(str) \/ slash < colon
        THEN [ok |-> FALSE, has_segments |-> FALSE, path |-> <<>>]
        ELSE IF Len(str) < colon + 2 \/ SubSeq(str, colon + 1, colon + 2) # <<"/", "/">>
        THEN [ok |-> TRUE, has_segments |-> FALSE, path |-> <<>>]
        ELSE LET from == FirstIndexOf(str, {"/", "?", "#"}, colon + 3)
                 to == FirstIndexOf(str, {"?", "#"}, colon + 3)
             IN  [ok |-> TRUE, has_segments |-> TRUE,
                  path |-> IF from >= to THEN <<"/">> ELSE SubSeq(str, from, to - 1)]

\* `path_segments().and_then(|s| s.last()).unwrap_or("downloaded_model.bin")`
url_file_name(str) ==
    IF Url(str).has_segments
    THEN SubSeq(Url(str).path, LastIndexOf(Url(str).path, "/") + 1, Len(Url(str).path))
    ELSE DefaultName

\* The names files can have in the destination directory.
FileNames == {NamePbr, NameGlb, DefaultName}

\* File contents: no file, a file from before the call, an empty file; the
\* bytes the server serves at a URL are named by the URL.
Absent == <<"absent">>
Old == <<"old">>
Empty == <<>>
ServedBytes(url) == url

\* File::create: the file is created, or truncated when it exists.
file_create_Append(content) == IF content = Absent THEN Empty ELSE content

file_create(content) == Empty

\* write_all on the handle File::create returned.
write_all(content, bytes) == content \o bytes

\* The responses to the GET of a result file.
DlSendFailed == [kind |-> "send_err", code |-> 0, bytes |-> Empty]

DlResponses(url) ==
    {DlSendFailed}
    \cup IF Url(url).has_segments
         THEN {[kind |-> "http", code |-> 200, bytes |-> ServedBytes(url)],
               [kind |-> "http", code |-> 404, bytes |-> Empty]}
         ELSE {}

\* enum TaskState.
TaskStates == {"Pending", "Running", "Success", "Failure"}

\* struct TaskStatus, the fields the downloader is handed.
Snapshots ==
    [status : TaskStates,
     pbr_model : {None} \cup {Some(u) : u \in Urls},
     glb_model : {None} \cup {Some(u) : u \in Urls}]

NoDlSnapshot == [status |-> "Success", pbr_model |-> None, glb_model |-> None]

\* The result files download_all_models goes through, in its order.
ResultFiles_GlbFirst(snapshot) ==
    (IF snapshot.glb_model.some THEN <<snapshot.glb_model.v>> ELSE <<>>)
    \o (IF snapshot.pbr_model.some THEN <<snapshot.pbr_model.v>> ELSE <<>>)

ResultFiles_OnlyOnSuccess(snapshot) ==
    IF snapshot.status = "Success"
    THEN (IF snapshot.pbr_model.some THEN <<snapshot.pbr_model.v>> ELSE <<>>)
         \o (IF snapshot.glb_model.some THEN <<snapshot.glb_model.v>> ELSE <<>>)
    ELSE <<>>

ResultFiles(snapshot) ==
    (IF snapshot.pbr_model.some THEN <<snapshot.pbr_model.v>> ELSE <<>>)
    \o (IF snapshot.glb_model.some THEN <<snapshot.glb_model.v>> ELSE <<>>)

\* Result<Vec<PathBuf>, TripoError>; a path is a name in the destination
\* directory.
NoDlResult == [kind |-> "None", paths |-> <<>>, err |-> "none", status |-> 0]
DlOk(paths) == [kind |-> "Ok", paths |-> paths, err |-> "none", status |-> 0]
DlErr(e, code) == [kind |-> "Err", paths |-> <<>>, err |-> e, status |-> code]

\* ---- constructing the client
\* "https://api/v2/"
BaseApi ==
    <<"h", "t", "t", "p", "s", ":", "/", "/", "a", "p", "i", "/", "v", "2",
      "/">>

\* "http://h/"
BaseMock ==
    <<"h", "t", "t", "p", ":", "/", "/", "h", "/">>

\* "api/v2"
BaseInvalid ==
    <<"a", "p", "i", "/", "v", "2">>

\* API keys: two that callers pass, one that TRIPO_API_KEY holds.
Key1 == <<"k", "1">>
Key2 == <<"k", "2">>
KeyEnv == <<"k", "e", "n", "v">>

\* The host of a parsed URL: what stands between `://` and the next `/`.
url_host(str) ==
    LET colon == FirstIndexOf(str, {":"}, 1)
        to == FirstIndexOf(str, {"/", "?", "#"}, colon + 3)
    IN  SubSeq(str, colon + 3, to - 1)

\* The value of an Authorization header: format!("Bearer {}", api_key).
Bearer(key) == [scheme |-> "Bearer", key |-> key]

\* `api_key.or_else(|| env::var("TRIPO_API_KEY").ok())`
resolve_api_key(api_key, env) == IF api_key.some THEN api_key ELSE env

\* struct TripoClient; `client` is the reqwest client with its default
\* headers.
TripoClient(key, base) ==
    [client |-> [default_headers |-> [Authorization |-> Bearer(key)]],
     base_url |-> base,
     api_key |-> key,
     s3_endpoint_override |-> None]

\* new_with_url: Result<TripoClient, TripoError>.
new_with_url(api_key, env, base) ==
    IF ~resolve_api_key(api_key, env).some
    THEN [ok |-> FALSE, err |-> "MissingApiKey", client |-> TripoClient(<<>>, <<>>)]
    ELSE IF ~Url(base).ok
    THEN [ok |-> FALSE, err |-> "UrlParseError", client |-> TripoClient(<<>>, <<>>)]
    ELSE [ok |-> TRUE, err |-> "none",
          client |-> TripoClient(resolve_api_key(api_key, env).v, base)]

\* What goes on the wire for a request built from the reqwest client, and
\* for the upgrade request connect_and_stream_tasks builds by hand.
HttpRequest_SameHostOnly(c, op, url) ==
    [op |-> op, transport |-> "http", host |-> url_host(url),
     authorization |->
         IF url_host(url) = url_host(c.base_url)
         THEN Some(c.client.default_headers.Authorization)
         ELSE [some |-> FALSE, v |-> Bearer(<<>>)]]

HttpRequest(c, op, url) ==
    [op |-> op, transport |-> "http", host |-> url_host(url),
     authorization |-> Some(c.client.default_headers.Authorization)]

UpgradeRequest_NoHeader(c, op, url) ==
    [op |-> op, transport |-> "websocket", host |-> url_host(url),
     authorization |-> [some |-> FALSE, v |-> Bearer(<<>>)]]

UpgradeRequest(c, op, url) ==
    [op |-> op, transport |-> "websocket", host |-> url_host(url),
     authorization |-> Some(Bearer(c.api_key))]

\* ------------------------------------------------------------------- state
VARIABLES
    call,         \* the operation the caller invoked on the client
    trackers,     \* pull: the locals of each of two concurrent wait_for_task calls
    pc,           \* where that operation stands
    served,       \* pull: the responses served to this call's status queries
    task_status,  \* pull: wait_for_task's local, the snapshot last fetched
    wait_result,  \* pull: what wait_for_task returned
    verbose,      \* pull: wait_for_task's verbose argument
    printed,      \* pull: the snapshots wait_for_task printed, in order
    ws_stream,    \* push: state of the underlying WebSocket stream
    frames,       \* push: the events the underlying stream yielded so far
    items,        \* push: the items the returned sequence delivered so far
    script,       \* the snapshots the service serves for the task, in order,
                  \* when both modes are fed the same sequence (else <<>>)
    image,        \* submit: the input string given to the operation
    files,        \* submit: the paths that exist on the local disk
    probes,       \* submit: the paths whose existence the resolver checked
    requests,     \* submit: the requests sent to the service, in order
    replies,      \* submit: the responses to those requests
    file_content, \* submit: the descriptor the resolver produced
    submit_result,\* submit: what the operation returned
    client,       \* the client's own fields
    ctor_args,    \* client: the arguments and environment of its construction
    sent,         \* client: the requests the client sent, in order
    s3_pc,        \* s3: where each caller's upload_file_s3 stands
    sts_data,     \* s3: each call's local, the credentials issued to it
    s3_result,    \* s3: what each call returned
    sts_log,      \* s3: the answers to the credential requests, and to whom
    puts,         \* s3: the put_object requests the store received
    dl_snapshot,  \* download: the snapshot given to download_all_models
    disk,         \* download: the content of each name in the destination
    dl_index,     \* download: which result file the call is at
    dl_response,  \* download: the response download_model holds
    dl_requests,  \* download: the URLs fetched, in order
    downloaded_files, \* download: the paths collected so far
    dl_result,    \* download: what download_all_models returned
    dl_calls,     \* download: how many calls were made with this snapshot
    dl_first      \* download: the directory and the result after the first call

pullVars == <<served, task_status, wait_result, verbose, printed>>
pushVars == <<ws_stream, frames, items>>

\* The state the tracker's operations read at most.
submitVars ==
    <<image, files, probes, requests, replies, file_content, submit_result>>

s3Vars == <<s3_pc, sts_data, s3_result, sts_log, puts>>

dlVars ==
    <<dl_snapshot, disk, dl_index, dl_response, dl_requests, downloaded_files,
      dl_result, dl_calls, dl_first>>

clientVars == <<ctor_args, sent>>

otherVars == <<script, submitVars, client, clientVars, s3Vars, dlVars, trackers>>

\* No download is in progress.
DownloadIdle ==
    /\ dl_snapshot = NoDlSnapshot
    /\ disk = [n \in FileNames |-> Absent]
    /\ dl_index = 1
    /\ dl_response = DlSendFailed
    /\ dl_requests = <<>>
    /\ downloaded_files = <<>>
    /\ dl_result = NoDlResult
    /\ dl_calls = 1
    /\ dl_first = [disk |-> disk, result |-> NoDlResult]

\* struct TripoClient: the key and the storage endpoint override.
DefaultClient == TripoClient(<<"k", "e", "y">>, BaseMock)

NoArgs == [api_key |-> None, env |-> None, base_url |-> <<>>]

\* The client was built with some key; its requests are not followed.
ClientIdle ==
    /\ ctor_args = NoArgs
    /\ sent = <<>>

\* No delegated-storage upload is in progress.
S3Idle ==
    /\ s3_pc = [c \in Callers |-> "idle"]
    /\ sts_data = [c \in Callers |-> NoStsData]
    /\ s3_result = [c \in Callers |-> NoS3Result]
    /\ sts_log = <<>>
    /\ puts = <<>>

\* No submitting operation is in progress.
SubmitIdle ==
    /\ image = <<>>
    /\ files = {}
    /\ probes = <<>>
    /\ requests = <<>>
    /\ replies = <<>>
    /\ file_content = NoFileContent
    /\ submit_result = NoSubmitResult

vars == <<call, pc, pullVars, pushVars, otherVars>>

NoResult == [kind |-> "None", data |-> NoSnapshot, err |-> "none"]

\* ------------------------------------------- two concurrent wait_for_task
\* The two calls that run concurrently on one client (`&self`).
Trackers == {1, 2}

\* The task_id argument of each call; the two ids differ.
TaskIds == <<"task-a", "task-b">>

\* `format!("task/{}", task_id)` joined to base_url: the task the query names.
task_url(task_id) == [path |-> "task", id |-> task_id]

\* Bodies the service answers the two calls' queries with.
TrackerBodies ==
    {Garbage, Envelope("running", 50), Envelope("success", 100),
     Envelope("failure", 100)}

\* What the service can answer to one GET of url: a transport failure, or a
\* response about the task the url names.
ServiceAnswers(url) ==
    {[kind |-> "send_err", code |-> 0, body |-> Garbage, task |-> url.id]}
    \cup {[kind |-> "http", code |-> 200, body |-> b, task |-> url.id] :
             b \in TrackerBodies}
    \cup {[kind |-> "http", code |-> 500, body |-> Garbage, task |-> url.id]}

\* struct TaskStatus with its task_id field.
TaskStatus(task_id, data) ==
    [task_id |-> task_id, status |-> data.status, progress |-> data.progress]

NoTaskStatus == TaskStatus("none", NoSnapshot)

\* The locals of a wait_for_task call before its first query.
NewTracker ==
    [pc |-> "get_task", served |-> <<>>, task_status |-> NoTaskStatus,
     result |-> [kind |-> "None", data |-> NoTaskStatus, err |-> "none"]]

\* No pair of concurrent calls is running.
TrackersIdle == trackers = [t \in Trackers |-> NewTracker]

Init ==
    /\ call \in {"wait_for_task", "watch_task"}
    /\ pc = IF call = "wait_for_task" THEN "get_task" ELSE "streaming"
    /\ served = <<>>
    /\ task_status = NoSnapshot
    /\ wait_result = NoResult
    /\ verbose \in IF call = "wait_for_task" THEN BOOLEAN ELSE {FALSE}
    /\ printed = <<>>
    /\ ws_stream = "open"
    /\ frames = <<>>
    /\ items = <<>>
    /\ script = <<>>
    /\ SubmitIdle
    /\ client = DefaultClient
    /\ ClientIdle
    /\ TrackersIdle
    /\ S3Idle
    /\ DownloadIdle

\* The responses the service can give to the next status query: any
\* response, or, when it serves a fixed sequence of snapshots, the next
\* snapshot of the sequence (the last one again once the sequence is used up).
Answers ==
    IF script = <<>>
    THEN Responses
    ELSE {[kind |-> "http", code |-> 200,
           body |-> script[IF Len(served) < Len(script) THEN Len(served) + 1
                           ELSE Len(script)]]}

\* ----------------------------------------------------------- wait_for_task
\* `if verbose { println!(..status, ..progress) }`, which stands between the
\* fetch and the match.
println_NonTerminalOnly(on, out, snapshot) ==
    IF on /\ ~IsTerminal(snapshot.status) THEN Append(out, snapshot) ELSE out

println(on, out, snapshot) == IF on THEN Append(out, snapshot) ELSE out

\* `self.get_task(task_id).await?`: one status query and the `?` on it.
\* An Err ends wait_for_task with that error; an Ok binds task_status.
WaitGetTask_RetriesOnError ==
    /\ call = "wait_for_task"
    /\ pc = "get_task"
    /\ Len(served) < MaxFetches
    /\ \E r \in Responses :
         /\ served' = Append(served, r)
         /\ IF get_task(r).ok
            THEN /\ task_status' = get_task(r).data
                 /\ printed' = println(verbose, printed, get_task(r).data)
                 /\ pc' = "match"
            ELSE /\ pc' = "sleep"
                 /\ UNCHANGED <<task_status, printed>>
    /\ UNCHANGED <<call, wait_result, verbose, pushVars, otherVars>>

WaitGetTask ==
    /\ call = "wait_for_task"
    /\ pc = "get_task"
    /\ Len(served) < MaxFetches
    /\ \E r \in Answers :
         /\ served' = Append(served, r)
         /\ IF get_task(r).ok
            THEN /\ task_status' = get_task(r).data
                 /\ printed' = println(verbose, printed, get_task(r).data)
                 /\ pc' = "match"
                 /\ UNCHANGED wait_result
            ELSE /\ wait_result' = [kind |-> "Err", data |-> NoSnapshot,
                                    err |-> get_task(r).err]
                 /\ pc' = "done"
                 /\ UNCHANGED <<task_status, printed>>
    /\ UNCHANGED <<call, verbose, pushVars, otherVars>>

\* `match task_status.status`: return the snapshot on Success | Failure,
\* otherwise go to the sleep.
WaitMatch_MaxAttempts ==
    /\ call = "wait_for_task"
    /\ pc = "match"
    /\ IF IsTerminal(task_status.status) \/ Len(served) >= 2
       THEN /\ wait_result' = [kind |-> "Ok", data |-> task_status, err |-> "none"]
            /\ pc' = "done"
       ELSE /\ pc' = "sleep"
            /\ UNCHANGED wait_result
    /\ UNCHANGED <<call, served, task_status, verbose, printed, pushVars, otherVars>>

WaitMatch ==
    /\ call = "wait_for_task"
    /\ pc = "match"
    /\ IF IsTerminal(task_status.status)
       THEN /\ wait_result' = [kind |-> "Ok", data |-> task_status, err |-> "none"]
            /\ pc' = "done"
       ELSE /\ pc' = "sleep"
            /\ UNCHANGED wait_result
    /\ UNCHANGED <<call, served, task_status, verbose, printed, pushVars, otherVars>>

\* `sleep(Duration::from_secs(2)).await`, then the next iteration of `loop`.
WaitSleep ==
    /\ call = "wait_for_task"
    /\ pc = "sleep"
    /\ pc' = "get_task"
    /\ UNCHANGED <<call, pullVars, pushVars, otherVars>>

\* ------------------------------------------------ connect_and_stream_tasks
\* What the underlying WebSocket stream (the ws_stream connect_async
\* returns) can yield: Ok(Message) for a text, binary, ping, pong or close
\* frame, or Err(e) for a transport-level error.
TextFrame(b) == [ok |-> TRUE, t |-> "text", body |-> b]
OtherFrame(t) == [ok |-> TRUE, t |-> t, body |-> Garbage]
CloseFrame == OtherFrame("close")
TransportError == [ok |-> FALSE, t |-> "error", body |-> Garbage]

Messages ==
    {TextFrame(b) : b \in Bodies}
    \cup {OtherFrame(t) : t \in {"binary", "ping", "pong"}}
    \cup {CloseFrame, TransportError}

\* The messages ws_stream can yield next.  While the connection is open it
\* yields any message.  Once the peer's close frame has been read no further
\* frame is accepted: the stream either ends or reports a transport error
\* (a reset, or data received after the close).  After an error the stream
\* is exhausted.
Yieldable(ws) ==
    CASE ws = "open" -> Messages
      [] ws = "closed_by_peer" -> {TransportError}
      [] OTHER -> {}

\* State of ws_stream after yielding msg.
AfterYield(ws, msg) ==
    CASE ~msg.ok -> "ended"
      [] msg.t = "close" -> "closed_by_peer"
      [] OTHER -> ws

\* Items of the returned sequence.
SnapshotItem(data) == [ok |-> TRUE, data |-> data, err |-> "none"]
ErrorItem(e) == [ok |-> FALSE, data |-> NoSnapshot, err |-> e]

\* The filter_map closure: the items (none or one) one message turns into.
filter_map_SkipsMalformed(msg) ==
    IF msg.ok
    THEN IF msg.t = "text" /\ ApiResponse(msg.body).ok
         THEN <<SnapshotItem(ApiResponse(msg.body).data)>>
         ELSE <<>>
    ELSE <<ErrorItem("WebSocketError")>>

filter_map_DropsTransportError(msg) ==
    IF msg.ok /\ msg.t = "text"
    THEN IF ApiResponse(msg.body).ok
         THEN <<SnapshotItem(ApiResponse(msg.body).data)>>
         ELSE <<ErrorItem("ResponseParseError")>>
    ELSE <<>>

filter_map_ParsesEveryFrame(msg) ==
    IF msg.ok
    THEN IF msg.t = "close"
         THEN <<>>
         ELSE IF ApiResponse(msg.body).ok
              THEN <<SnapshotItem(ApiResponse(msg.body).data)>>
              ELSE <<ErrorItem("ResponseParseError")>>
    ELSE <<ErrorItem("WebSocketError")>>

filter_map(msg) ==
    IF msg.ok
    THEN IF msg.t = "text"
         THEN IF ApiResponse(msg.body).ok
              THEN <<SnapshotItem(ApiResponse(msg.body).data)>>
              ELSE <<ErrorItem("ResponseParseError")>>
         ELSE <<>>
    ELSE <<ErrorItem("WebSocketError")>>

\* The messages the connection can deliver next: whatever ws_stream can
\* yield, or, when the service serves a fixed sequence of snapshots, the next
\* snapshot as a text frame and a close frame after the last.
Inbound ==
    IF script = <<>>
    THEN Yieldable(ws_stream)
    ELSE Yieldable(ws_stream)
            \cap {IF Len(frames) < Len(script)
                  THEN TextFrame(script[Len(frames) + 1])
                  ELSE CloseFrame}

\* An item as delivered, tagged with the number of the event it came from.
Delivered(item, n) ==
    [ok |-> item.ok, data |-> item.data, err |-> item.err, src |-> n]

\* The consumer polls the sequence and ws_stream yields a message: the
\* closure maps it to no item or to one item.
StreamNext ==
    /\ call = "watch_task"
    /\ pc = "streaming"
    /\ Len(frames) < MaxFrames
    /\ \E msg \in Inbound :
         /\ frames' = Append(frames, msg)
         /\ ws_stream' = AfterYield(ws_stream, msg)
         /\ items' = IF filter_map(msg) = <<>>
                     THEN items
                     ELSE Append(items, Delivered(filter_map(msg)[1], Len(frames) + 1))
    /\ UNCHANGED <<call, pc, pullVars, otherVars>>

\* ws_stream is exhausted (the connection closed after the peer's close
\* frame, or an error was reported): the returned sequence ends.
StreamEnd_AfterTerminal ==
    /\ call = "watch_task"
    /\ pc = "streaming"
    /\ \/ ws_stream \in {"closed_by_peer", "ended"}
       \/ \E j \in 1..Len(items) : items[j].ok /\ IsTerminal(items[j].data.status)
    /\ ws_stream' = "ended"
    /\ pc' = "done"
    /\ UNCHANGED <<call, frames, items, pullVars, otherVars>>

StreamEnd ==
    /\ call = "watch_task"
    /\ pc = "streaming"
    /\ ws_stream \in {"closed_by_peer", "ended"}
    /\ ws_stream' = "ended"
    /\ pc' = "done"
    /\ UNCHANGED <<call, frames, items, pullVars, otherVars>>

Next == WaitGetTask \/ WaitMatch \/ WaitSleep \/ StreamNext \/ StreamEnd

Spec == Init /\ [][Next]_vars

\* Every suspended step of wait_for_task is eventually resumed: the matched
\* arm runs, the two-second sleep elapses, and a pending status query is
\* eventually answered (or fails).
FairSpec ==
    /\ Spec
    /\ WF_vars(WaitMatch)
    /\ WF_vars(WaitSleep)
    /\ WF_vars(WaitGetTask)

\* ------------------------------------------- both modes, the same snapshots
\* Bodies that decode to a status snapshot.
SnapshotBodies == {Envelope(s, p) : s \in KnownWire, p \in {50, 100}}

\* Non-empty sequences of at most n snapshot bodies.
Scripts(n) == UNION {[1..k -> SnapshotBodies] : k \in 1..n}

\* The caller waits for the task in pull mode first ...
InitBoth ==
    /\ call = "wait_for_task"
    /\ pc = "get_task"
    /\ served = <<>>
    /\ task_status = NoSnapshot
    /\ wait_result = NoResult
    /\ verbose = FALSE
    /\ printed = <<>>
    /\ ws_stream = "open"
    /\ frames = <<>>
    /\ items = <<>>
    /\ script \in Scripts(MaxScript)
    /\ SubmitIdle
    /\ client = DefaultClient
    /\ ClientIdle
    /\ TrackersIdle
    /\ S3Idle
    /\ DownloadIdle

\* ... and, once wait_for_task has returned, watches the same task in push
\* mode; the connection replays the task's snapshots.
WatchAfterWait ==
    /\ call = "wait_for_task"
    /\ pc = "done"
    /\ script # <<>>
    /\ call' = "watch_task"
    /\ pc' = "streaming"
    /\ UNCHANGED <<pullVars, pushVars, otherVars>>

NextBoth == Next \/ WatchAfterWait

SpecBoth == InitBoth /\ [][NextBoth]_vars

\* ================================================ submitting operations
\* text_to_model's prompt.
Prompt == <<"a", " ", "c", "a", "t">>

\* The file name image_to_3d gives its multipart part.
FixedPartName == <<"i", "m", "a", "g", "e", ".", "p", "n", "g">>

\* One of the submitting operations is invoked with some input, on a disk
\* holding some of the names an input can denote.
InitSubmit ==
    /\ call \in {"image_to_model", "text_to_model", "image_to_3d", "upload_file_s3"}
    /\ pc = CASE call = "image_to_model" -> "resolve"
              [] call = "upload_file_s3" -> "s3"
              [] OTHER -> "create"
    /\ served = <<>>
    /\ task_status = NoSnapshot
    /\ wait_result = NoResult
    /\ verbose = FALSE
    /\ printed = <<>>
    /\ ws_stream = "open"
    /\ frames = <<>>
    /\ items = <<>>
    /\ script = <<>>
    /\ image \in CASE call = "text_to_model" -> {Prompt}
                   [] call = "upload_file_s3" -> {<<>>}
                   [] OTHER -> Images
    /\ files \in CASE call = "text_to_model" -> {{}}
                   [] call = "upload_file_s3" -> SUBSET {S3Path(c) : c \in Callers}
                   [] OTHER -> SUBSET LocalNames
    /\ probes = <<>>
    /\ requests = <<>>
    /\ replies = <<>>
    /\ file_content = NoFileContent
    /\ submit_result = NoSubmitResult
    /\ client \in IF call = "upload_file_s3"
                  THEN {DefaultClient,
                        [DefaultClient EXCEPT !.s3_endpoint_override = Some(<<"m", "i", "n", "i", "o">>)]}
                  ELSE {DefaultClient}
    /\ ClientIdle
    /\ TrackersIdle
    /\ s3_pc = [c \in Callers |-> IF call = "upload_file_s3" THEN "token" ELSE "idle"]
    /\ sts_data = [c \in Callers |-> NoStsData]
    /\ s3_result = [c \in Callers |-> NoS3Result]
    /\ sts_log = <<>>
    /\ puts = <<>>
    /\ DownloadIdle

\* _create_file_content_from_str up to its call of upload_file: the URL
\* test, the UUID test, then the existence check of the path.
ResolveInput ==
    /\ call = "image_to_model"
    /\ pc = "resolve"
    /\ LET branch == Branch(image, image \in files)
       IN  CASE branch = "url" ->
                  /\ file_content' = FileContent(StrJpeg, NoObject, Some(image), None)
                  /\ pc' = "create"
                  /\ UNCHANGED <<probes, submit_result>>
             [] branch = "file_token" ->
                  /\ file_content' = FileContent(StrJpeg, NoObject, None, Some(image))
                  /\ pc' = "create"
                  /\ UNCHANGED <<probes, submit_result>>
             [] branch = "path" ->
                  /\ probes' = Append(probes, image)
                  /\ IF image \in files
                     THEN pc' = "upload" /\ UNCHANGED submit_result
                     ELSE /\ pc' = "done"
                          /\ submit_result' = SubmitErr("IoError(NotFound)")
                  /\ UNCHANGED file_content
    /\ UNCHANGED <<call, pullVars, pushVars, script, trackers, image, files, requests, replies,
                   client, clientVars, s3Vars, dlVars>>

\* upload_file and the rest of the resolver's path branch: open the file
\* (which can fail although the path existed a moment ago), send it as a
\* multipart form, and on success build the descriptor from the returned
\* token and the path's extension.
UploadFile ==
    /\ call = "image_to_model"
    /\ pc = "upload"
    /\ \E opened \in BOOLEAN, r \in Replies :
          IF ~opened
          THEN /\ submit_result' = SubmitErr("IoError(open)")
               /\ pc' = "done"
               /\ UNCHANGED <<requests, replies, file_content>>
          ELSE /\ requests' = Append(requests,
                      [endpoint |-> "upload/sts",
                       body |-> [file |-> file_name(image)]])
               /\ replies' = Append(replies, r)
               /\ IF upload_file_response(r).kind = "Ok"
                  THEN /\ file_content' =
                              FileContent(file_type(image), NoObject, None,
                                          Some(upload_file_response(r).value))
                       /\ pc' = "create"
                       /\ UNCHANGED submit_result
                  ELSE /\ submit_result' = upload_file_response(r)
                       /\ pc' = "done"
                       /\ UNCHANGED file_content
    /\ UNCHANGED <<call, pullVars, pushVars, script, trackers, image, files, probes,
                   client, clientVars, s3Vars, dlVars>>

\* The body of the task-creation request of each operation.
TaskRequest ==
    CASE call = "image_to_model" ->
             [type |-> "image_to_model", file |-> Serialize(file_content)]
      [] call = "text_to_model" ->
             [type |-> "text_to_model", prompt |-> image]
      [] call = "image_to_3d" ->
             [type |-> "image_to_model", file |-> FixedPartName]

\* The POST to the task endpoint and the handling of its response;
\* image_to_3d opens the image file before it sends.
CreateTask ==
    /\ call \in {"image_to_model", "text_to_model", "image_to_3d"}
    /\ pc = "create"
    /\ \E r \in Replies :
          IF call = "image_to_3d" /\ image \notin files
          THEN /\ submit_result' = SubmitErr("IoError(open)")
               /\ UNCHANGED <<requests, replies>>
          ELSE /\ requests' = Append(requests,
                      [endpoint |-> "task", body |-> TaskRequest])
               /\ replies' = Append(replies, r)
               /\ submit_result' = task_response(r)
    /\ pc' = "done"
    /\ UNCHANGED <<call, pullVars, pushVars, script, trackers, image, files, probes,
                   file_content, client, clientVars, s3Vars, dlVars>>

\* ---- upload_file_s3, called concurrently on one client
\* Step 1: the credential request and the decoding of its response.
S3GetToken(c) ==
    /\ call = "upload_file_s3"
    /\ s3_pc[c] = "token"
    /\ \E r \in StsReplies(Issuances(sts_log)) :
          /\ sts_log' = Append(sts_log, [to |-> c, reply |-> r])
          /\ IF sts_response(r).ok
             THEN /\ sts_data' = [sts_data EXCEPT ![c] = sts_response(r).data]
                  /\ s3_pc' = [s3_pc EXCEPT ![c] = "put"]
                  /\ UNCHANGED s3_result
             ELSE /\ s3_result' = [s3_result EXCEPT
                                     ![c] = S3Err(sts_response(r).err, "none")]
                  /\ s3_pc' = [s3_pc EXCEPT ![c] = "done"]
                  /\ UNCHANGED sts_data
    /\ UNCHANGED <<call, pc, pullVars, pushVars, script, trackers, submitVars, client, clientVars, puts,
                   dlVars>>

\* The credentials the call's storage client is built with.
PutCredentials_Shared(c) ==
    Credentials(LET at == {j \in 1..Len(sts_log) : sts_log[j].reply.body.shape = "sts"}
                IN  sts_log[CHOOSE j \in at : \A k \in at : k <= j].reply.body.data)

PutCredentials(c) == Credentials(sts_data[c])

\* Steps 2 to 4: build the storage client, read the file, put the object,
\* return the descriptor.
S3PutObject(c) ==
    /\ call = "upload_file_s3"
    /\ s3_pc[c] = "put"
    /\ s3_pc' = [s3_pc EXCEPT ![c] = "done"]
    /\ IF S3Path(c) \notin files
       THEN /\ s3_result' = [s3_result EXCEPT
                               ![c] = S3Err("UploadStreamError", "none")]
            /\ UNCHANGED puts
       ELSE /\ puts' = Append(puts,
                   [by |-> c,
                    credentials |-> PutCredentials(c),
                    endpoint |-> client.s3_endpoint_override,
                    bucket |-> sts_data[c].resource_bucket,
                    key |-> sts_data[c].resource_uri,
                    body |-> S3Path(c)])
            /\ \/ s3_result' = [s3_result EXCEPT ![c] =
                       S3Ok(FileContent(file_type(S3Path(c)),
                                        Some([bucket |-> sts_data[c].resource_bucket,
                                              key |-> sts_data[c].resource_uri]),
                                        None, None))]
               \/ \E e \in PutErrors :
                      s3_result' = [s3_result EXCEPT ![c] = S3Err("ApiError", e)]
    /\ UNCHANGED <<call, pc, pullVars, pushVars, script, trackers, submitVars, client, clientVars,
                   sts_data, sts_log, dlVars>>

NextSubmit ==
    \/ ResolveInput
    \/ UploadFile
    \/ CreateTask
    \/ \E c \in Callers : S3GetToken(c)
    \/ \E c \in Callers : S3PutObject(c)

SpecSubmit == InitSubmit /\ [][NextSubmit]_vars

\* ====================================================== the downloader
\* download_all_models is called with some snapshot, on a destination
\* directory where each name is absent or left over from before.
InitDownload ==
    /\ call = "download_all_models"
    /\ pc = "dl_next"
    /\ served = <<>>
    /\ task_status = NoSnapshot
    /\ wait_result = NoResult
    /\ verbose = FALSE
    /\ printed = <<>>
    /\ ws_stream = "open"
    /\ frames = <<>>
    /\ items = <<>>
    /\ script = <<>>
    /\ SubmitIdle
    /\ client = DefaultClient
    /\ ClientIdle
    /\ TrackersIdle
    /\ S3Idle
    /\ dl_snapshot \in Snapshots
    /\ disk \in [FileNames -> {Absent, Old}]
    /\ dl_index = 1
    /\ dl_response = DlSendFailed
    /\ dl_requests = <<>>
    /\ downloaded_files = <<>>
    /\ dl_result = NoDlResult
    /\ dl_calls = 1
    /\ dl_first = [disk |-> disk, result |-> NoDlResult]

\* The result file the call is at.
CurrentUrl == ResultFiles(dl_snapshot)[dl_index]

\* download_model up to the status check: parse the URL, derive the file
\* name, send the GET, reject a non-2xx response.
DownloadRequest ==
    /\ call = "download_all_models"
    /\ pc = "dl_next"
    /\ dl_index <= Len(ResultFiles(dl_snapshot))
    /\ IF ~Url(CurrentUrl).ok
       THEN /\ dl_result' = DlErr("UrlParseError", 0)
            /\ pc' = "done"
            /\ UNCHANGED <<dl_requests, dl_response>>
       ELSE /\ dl_requests' = Append(dl_requests, CurrentUrl)
            /\ \E r \in DlResponses(CurrentUrl) :
                  /\ dl_response' = r
                  /\ IF r.kind = "send_err"
                     THEN dl_result' = DlErr("RequestError(send)", 0) /\ pc' = "done"
                     ELSE IF ~is_success(r.code)
                     THEN dl_result' = DlErr("ApiError", r.code) /\ pc' = "done"
                     ELSE pc' = "dl_create" /\ UNCHANGED dl_result
    /\ UNCHANGED <<call, pullVars, pushVars, script, trackers, submitVars, client, clientVars, s3Vars,
                   dl_snapshot, disk, dl_index, downloaded_files, dl_calls,
                   dl_first>>

\* create_dir_all and File::create: the file exists and is empty, unless
\* creating fails, as it does when the name is empty (the path is then the
\* directory itself).
DownloadCreate ==
    /\ call = "download_all_models"
    /\ pc = "dl_create"
    /\ \E created \in BOOLEAN :
          IF created /\ url_file_name(CurrentUrl) # Empty
          THEN /\ disk' = [disk EXCEPT ![url_file_name(CurrentUrl)] =
                                   file_create(disk[url_file_name(CurrentUrl)])]
               /\ pc' = "dl_write"
               /\ UNCHANGED dl_result
          ELSE /\ dl_result' = DlErr("IoError", 0)
               /\ pc' = "done"
               /\ UNCHANGED disk
    /\ UNCHANGED <<call, pullVars, pushVars, script, trackers, submitVars, client, clientVars, s3Vars,
                   dl_snapshot, dl_index, dl_response, dl_requests,
                   downloaded_files, dl_calls, dl_first>>

\* response.bytes() and write_all, then the push of the path and the move
\* to the next result file; reading the body can fail, which leaves the
\* created file empty.
DownloadWrite ==
    /\ call = "download_all_models"
    /\ pc = "dl_write"
    /\ \E received \in BOOLEAN :
          IF received
          THEN /\ disk' = [disk EXCEPT ![url_file_name(CurrentUrl)] =
                                   write_all(disk[url_file_name(CurrentUrl)],
                                             dl_response.bytes)]
               /\ downloaded_files' = Append(downloaded_files, url_file_name(CurrentUrl))
               /\ dl_index' = dl_index + 1
               /\ pc' = "dl_next"
               /\ UNCHANGED dl_result
          ELSE /\ dl_result' = DlErr("RequestError(body)", 0)
               /\ pc' = "done"
               /\ UNCHANGED <<disk, downloaded_files, dl_index>>
    /\ UNCHANGED <<call, pullVars, pushVars, script, trackers, submitVars, client, clientVars, s3Vars,
                   dl_snapshot, dl_response, dl_requests, dl_calls, dl_first>>

\* Ok(downloaded_files), once both result fields have been gone through.
DownloadReturn ==
    /\ call = "download_all_models"
    /\ pc = "dl_next"
    /\ dl_index > Len(ResultFiles(dl_snapshot))
    /\ dl_result' = DlOk(downloaded_files)
    /\ pc' = "done"
    /\ UNCHANGED <<call, pullVars, pushVars, script, trackers, submitVars, client, clientVars, s3Vars,
                   dl_snapshot, disk, dl_index, dl_response, dl_requests,
                   downloaded_files, dl_calls, dl_first>>

\* The caller calls download_all_models again with the same snapshot and
\* destination directory.
DownloadAgain ==
    /\ call = "download_all_models"
    /\ pc = "done"
    /\ dl_calls < MaxCalls
    /\ dl_calls' = dl_calls + 1
    /\ dl_first' = IF dl_calls = 1 THEN [disk |-> disk, result |-> dl_result]
                   ELSE dl_first
    /\ pc' = "dl_next"
    /\ dl_index' = 1
    /\ dl_response' = DlSendFailed
    /\ dl_requests' = <<>>
    /\ downloaded_files' = <<>>
    /\ dl_result' = NoDlResult
    /\ UNCHANGED <<call, pullVars, pushVars, script, trackers, submitVars, client, clientVars, s3Vars,
                   dl_snapshot, disk>>

NextDownload ==
    \/ DownloadRequest
    \/ DownloadCreate
    \/ DownloadWrite
    \/ DownloadReturn
    \/ DownloadAgain

SpecDownload == InitDownload /\ [][NextDownload]_vars

\* ============================================ the client and its requests
\* How many requests of one client are followed.
MaxSent == 3

\* A client is about to be constructed with some key argument, some value
\* of TRIPO_API_KEY in the environment and some base URL.
InitClient ==
    /\ call = "new_with_url"
    /\ pc = "new"
    /\ served = <<>>
    /\ task_status = NoSnapshot
    /\ wait_result = NoResult
    /\ verbose = FALSE
    /\ printed = <<>>
    /\ ws_stream = "open"
    /\ frames = <<>>
    /\ items = <<>>
    /\ script = <<>>
    /\ SubmitIdle
    /\ S3Idle
    /\ DownloadIdle
    /\ TrackersIdle
    /\ ctor_args \in [api_key : {None, Some(Key1), Some(Key2)},
                      env : {None, Some(KeyEnv)},
                      base_url : {BaseApi, BaseMock, BaseInvalid}]
    /\ client = TripoClient(<<>>, <<>>)
    /\ sent = <<>>

\* TripoClient::new / new_with_url.
Construct ==
    /\ call = "new_with_url"
    /\ pc = "new"
    /\ LET built == new_with_url(ctor_args.api_key, ctor_args.env, ctor_args.base_url)
       IN  IF built.ok
           THEN client' = built.client /\ pc' = "ready"
           ELSE UNCHANGED client /\ pc' = built.err
    /\ UNCHANGED <<call, pullVars, pushVars, script, trackers, submitVars, clientVars, s3Vars,
                   dlVars>>

\* The operations that send one request to the service through the reqwest
\* client, at a path under the base URL.
ServiceOps ==
    {"text_to_model", "upload_file_s3", "upload_file", "image_to_model",
     "get_task", "get_balance"}

\* text_to_model, upload_file_s3 (its credential request), upload_file,
\* image_to_model, get_task, get_balance: `self.client.post(url)` or
\* `self.client.get(url)` with url = base_url.join(..).
SendToService ==
    /\ call = "new_with_url"
    /\ pc = "ready"
    /\ Len(sent) < MaxSent
    /\ \E op \in ServiceOps :
          sent' = Append(sent, HttpRequest(client, op, client.base_url))
    /\ UNCHANGED <<call, pc, pullVars, pushVars, script, trackers, submitVars, client,
                   ctor_args, s3Vars, dlVars>>

\* download_model: `self.client.get(model_file.url.clone())`, for any URL
\* that parses.
SendDownload ==
    /\ call = "new_with_url"
    /\ pc = "ready"
    /\ Len(sent) < MaxSent
    /\ \E url \in {u \in Urls \cup {UrlOtherHost} : Url(u).has_segments} :
          sent' = Append(sent, HttpRequest(client, "download_model", url))
    /\ UNCHANGED <<call, pc, pullVars, pushVars, script, trackers, submitVars, client,
                   ctor_args, s3Vars, dlVars>>

\* watch_task and watch_all_tasks: connect_and_stream_tasks with a URL
\* under the base URL with its scheme set to ws or wss.
ConnectWebSocket ==
    /\ call = "new_with_url"
    /\ pc = "ready"
    /\ Len(sent) < MaxSent
    /\ \E op \in {"watch_task", "watch_all_tasks"} :
          sent' = Append(sent, UpgradeRequest(client, op, client.base_url))
    /\ UNCHANGED <<call, pc, pullVars, pushVars, script, trackers, submitVars, client,
                   ctor_args, s3Vars, dlVars>>

\* The owner assigns the public field s3_endpoint_override.
SetS3EndpointOverride ==
    /\ call = "new_with_url"
    /\ pc = "ready"
    /\ ~client.s3_endpoint_override.some
    /\ client' = [client EXCEPT !.s3_endpoint_override = Some(<<"m", "i", "n", "i", "o">>)]
    /\ UNCHANGED <<call, pc, pullVars, pushVars, script, trackers, submitVars, clientVars,
                   s3Vars, dlVars>>

NextClient ==
    \/ Construct
    \/ SendToService
    \/ SendDownload
    \/ ConnectWebSocket
    \/ SetS3EndpointOverride

SpecClient == InitClient /\ [][NextClient]_vars

\* ====================================== two wait_for_task calls at once
\* Two wait_for_task futures for different tasks are polled concurrently on
\* one client; every step below is one call's progress between two awaits.
InitTrackers ==
    /\ call = "wait_for_task x2"
    /\ pc = "concurrent"
    /\ served = <<>>
    /\ task_status = NoSnapshot
    /\ wait_result = NoResult
    /\ verbose = FALSE
    /\ printed = <<>>
    /\ ws_stream = "closed"
    /\ frames = <<>>
    /\ items = <<>>
    /\ script = <<>>
    /\ SubmitIdle
    /\ client = DefaultClient
    /\ ClientIdle
    /\ trackers = [t \in Trackers |-> NewTracker]
    /\ S3Idle
    /\ DownloadIdle

\* `self.get_task(task_id).await?` of call t.
TrGetTask(t) ==
    /\ call = "wait_for_task x2"
    /\ trackers[t].pc = "get_task"
    /\ Len(trackers[t].served) < MaxFetches
    /\ \E r \in ServiceAnswers(task_url(TaskIds[t])) :
         trackers' = [trackers EXCEPT ![t] =
             IF get_task(r).ok
             THEN [@ EXCEPT !.served = Append(@, r),
                            !.task_status = TaskStatus(r.task, get_task(r).data),
                            !.pc = "match"]
             ELSE [@ EXCEPT !.served = Append(@, r),
                            !.result = [kind |-> "Err", data |-> NoTaskStatus,
                                        err |-> get_task(r).err],
                            !.pc = "done"]]
    /\ UNCHANGED <<call, pc, pullVars, pushVars, script, submitVars, client,
                   clientVars, s3Vars, dlVars>>

\* `match task_status.status` of call t, on the call's own local.
TrMatch_SharedLocal(t) ==
    /\ call = "wait_for_task x2"
    /\ trackers[t].pc = "match"
    /\ trackers' = [trackers EXCEPT ![t] =
         IF IsTerminal(trackers[1].task_status.status)
         THEN [@ EXCEPT !.result = [kind |-> "Ok", data |-> trackers[1].task_status,
                                    err |-> "none"],
                        !.pc = "done"]
         ELSE [@ EXCEPT !.pc = "sleep"]]
    /\ UNCHANGED <<call, pc, pullVars, pushVars, script, submitVars, client,
                   clientVars, s3Vars, dlVars>>

TrMatch(t) ==
    /\ call = "wait_for_task x2"
    /\ trackers[t].pc = "match"
    /\ trackers' = [trackers EXCEPT ![t] =
         IF IsTerminal(trackers[t].task_status.status)
         THEN [@ EXCEPT !.result = [kind |-> "Ok", data |-> trackers[t].task_status,
                                    err |-> "none"],
                        !.pc = "done"]
         ELSE [@ EXCEPT !.pc = "sleep"]]
    /\ UNCHANGED <<call, pc, pullVars, pushVars, script, submitVars, client,
                   clientVars, s3Vars, dlVars>>

\* `sleep(Duration::from_secs(2)).await` of call t, then its next iteration.
TrSleep(t) ==
    /\ call = "wait_for_task x2"
    /\ trackers[t].pc = "sleep"
    /\ trackers' = [trackers EXCEPT ![t].pc = "get_task"]
    /\ UNCHANGED <<call, pc, pullVars, pushVars, script, submitVars, client,
                   clientVars, s3Vars, dlVars>>

NextTrackers == \E t \in Trackers : TrGetTask(t) \/ TrMatch(t) \/ TrSleep(t)

SpecTrackers == InitTrackers /\ [][NextTrackers]_vars

\* ---------------------------------------------------------------- pull mode
Last(seq) == seq[Len(seq)]

\* The response is a 2xx answer that decodes to a snapshot.
AnswersSnapshot(r) == r.kind = "http" /\ r.code = 200 /\ ApiResponse(r.body).ok

\* ... whose state is Success or Failure.
AnswersTerminal(r) ==
    AnswersSnapshot(r) /\ ApiResponse(r.body).data.status \in {"Success", "Failure"}

\* ... whose state is Pending or Running.
AnswersNonTerminal(r) ==
    AnswersSnapshot(r) /\ ApiResponse(r.body).data.status \in {"Pending", "Running"}

\* C1: whenever wait_for_task has returned Ok, the returned snapshot's state
\* is Success or Failure, it is the snapshot of the last status query made,
\* no earlier query of the call answered with a Success/Failure snapshot,
\* (so it is the first such snapshot and no query followed it).
C1_ReturnsFirstTerminal ==
    wait_result.kind = "Ok" =>
        /\ wait_result.data.status \in {"Success", "Failure"}
        /\ served # <<>>
        /\ AnswersTerminal(Last(served))
        /\ wait_result.data = ApiResponse(Last(served).body).data
        /\ \A i \in 1..(Len(served) - 1) : ~AnswersTerminal(served[i])
        /\ pc = "done"

\* C1 witness: an Ok return after two Running snapshots.
C1_Witness ==
    /\ wait_result.kind = "Ok"
    /\ Len(served) = 3
    /\ wait_result.data.status = "Failure"

\* C2: for every k, when the first k status queries were answered with
\* non-terminal snapshots the call is still running after them, and when the
\* (k+1)-th is answered with a terminal snapshot the call makes exactly k+1
\* queries and returns that snapshot unchanged.
C2_ExactlyKPlusOneFetches ==
    \A k \in 0..Len(served) :
        (call = "wait_for_task" /\ \A i \in 1..k : AnswersNonTerminal(served[i])) =>
            IF k = Len(served)
            THEN wait_result = NoResult /\ pc \in {"get_task", "match", "sleep"}
            ELSE AnswersTerminal(served[k + 1]) =>
                    /\ Len(served) = k + 1
                    /\ \/ pc = "match" /\ wait_result = NoResult
                       \/ /\ pc = "done"
                          /\ wait_result = [kind |-> "Ok",
                                            data |-> [status |-> TaskState(served[k + 1].body.status),
                                                      progress |-> served[k + 1].body.progress],
                                            err |-> "none"]

\* C2 witness: [running 50, running 50, success 100] returned after exactly
\* three queries with state Success and progress 100.
C2_Witness ==
    /\ pc = "done"
    /\ Len(served) = 3
    /\ served[1].body = Envelope("running", 50)
    /\ served[2].body = Envelope("running", 50)
    /\ served[3].body = Envelope("success", 100)
    /\ \A i \in 1..3 : served[i].code = 200
    /\ wait_result.kind = "Ok"
    /\ wait_result.data = [status |-> "Success", progress |-> 100]

\* A 2xx status envelope whose wire status is none of
\* pending/running/success/failure and that is otherwise decodable.
AnswersUnknownStatus(r) ==
    /\ r.kind = "http"
    /\ r.code = 200
    /\ r.body.wellformed
    /\ r.body.status \notin KnownWire
    /\ r.body.progress \in 0..U8Max

\* C3: a status response with an unrecognized wire status is a non-terminal
\* snapshot: wait_for_task neither returns nor fails on it.
C3_UnknownStatusKeepsPolling ==
    (served # <<>> /\ AnswersUnknownStatus(Last(served))) => wait_result = NoResult

\* C4: a snapshot with state Success comes only from wire status "success":
\* the snapshot get_task yields, the one wait_for_task returns, and every
\* snapshot item of the push-mode sequence.
C4_SuccessOnlyFromSuccess ==
    /\ (pc = "match" /\ task_status.status = "Success") =>
            Last(served).body.status = "success"
    /\ (wait_result.kind = "Ok" /\ wait_result.data.status = "Success") =>
            Last(served).body.status = "success"
    /\ \A j \in 1..Len(items) :
            (items[j].ok /\ items[j].data.status = "Success") =>
                frames[items[j].src].body.status = "success"

\* C4 witness: Success snapshots were produced while other spellings of the
\* status had been received.
C4_Witness ==
    /\ Len(frames) = 3
    /\ frames[1] = TextFrame(Envelope("SUCCESS", 100))
    /\ frames[2] = TextFrame(Envelope("processing", 50))
    /\ frames[3] = TextFrame(Envelope("success", 100))
    /\ Len(items) = 3
    /\ items[3].ok /\ items[3].data.status = "Success"

\* The status query failed: in transport, by a non-2xx response, or by a
\* body that does not decode.
FetchFailed(r) ==
    \/ r.kind = "send_err"
    \/ r.code \notin 200..299
    \/ ~ApiResponse(r.body).ok

\* The error such a failed query surfaces.
FetchError(r) ==
    CASE r.kind = "send_err" -> "RequestError(send)"
      [] r.code \notin 200..299 -> "ApiError"
      [] OTHER -> "RequestError(decode)"

\* C5: the first failed status query ends wait_for_task at once with that
\* error: it is the last query made, and the call has returned Err with it.
C5_FirstFailureAborts ==
    \A i \in 1..Len(served) :
        FetchFailed(served[i]) =>
            /\ i = Len(served)
            /\ pc = "done"
            /\ wait_result = [kind |-> "Err", data |-> NoSnapshot,
                              err |-> FetchError(served[i])]

\* C5 witness: a non-2xx response after two successful non-terminal polls.
C5_Witness ==
    /\ Len(served) = 3
    /\ AnswersNonTerminal(served[1])
    /\ AnswersNonTerminal(served[2])
    /\ served[3].code = 500
    /\ wait_result.kind = "Err"

\* C6: wait_for_task ends only through the remote state.  A fetched
\* terminal snapshot leads to the return; while every query so far was
\* answered with a non-terminal snapshot the call has not returned, and it
\* keeps polling: the sleep leads to the next query and the query to the
\* next answer (up to the model's bound on queries).
C6_TerminatesOnlyByRemoteState ==
    /\ (pc = "match" /\ task_status.status \in {"Success", "Failure"})
            ~> (wait_result.kind = "Ok")
    /\ []((\A i \in 1..Len(served) : AnswersNonTerminal(served[i]))
            => wait_result = NoResult)
    /\ (pc = "sleep") ~> (pc = "get_task")
    /\ \A n \in 0..(MaxFetches - 1) :
            (call = "wait_for_task" /\ pc = "get_task" /\ Len(served) = n)
                ~> (Len(served) = n + 1)

\* C6 witness: the call polled up to the bound on non-terminal snapshots
\* only and is still waiting.
C6_Witness ==
    /\ Len(served) = MaxFetches
    /\ \A i \in 1..Len(served) : AnswersNonTerminal(served[i])
    /\ pc = "get_task"
    /\ wait_result = NoResult

\* ---------------------------------------------------------------- push mode
\* The numbers of the items delivered for event i.
ItemsOf(i) == {j \in 1..Len(items) : items[j].src = i}

\* The text frame parses as a status envelope.
WellFormedText(m) == m.ok /\ m.t = "text" /\ ApiResponse(m.body).ok
MalformedText(m) == m.ok /\ m.t = "text" /\ ~ApiResponse(m.body).ok

\* C7: a text frame that does not parse as a status envelope produces
\* exactly one item, a parse error; it does not end the sequence; and every
\* well-formed text frame received after it is delivered as its snapshot.
C7_MalformedFrameOneErrorItem ==
    \A i \in 1..Len(frames) :
        MalformedText(frames[i]) =>
            /\ Cardinality(ItemsOf(i)) = 1
            /\ \A j \in ItemsOf(i) : ~items[j].ok /\ items[j].err = "ResponseParseError"
            /\ (i = Len(frames) => pc = "streaming" /\ ws_stream = "open")
            /\ \A k \in (i + 1)..Len(frames) :
                   WellFormedText(frames[k]) =>
                       /\ Cardinality(ItemsOf(k)) = 1
                       /\ \A j \in ItemsOf(k) :
                              /\ items[j].ok
                              /\ items[j].data = ApiResponse(frames[k].body).data

\* C7 witness: a malformed text frame, then a well-formed one, both
\* delivered: an error item followed by a snapshot item.
C7_Witness ==
    /\ Len(frames) >= 2
    /\ MalformedText(frames[1])
    /\ WellFormedText(frames[2])
    /\ Len(items) >= 2
    /\ ~items[1].ok
    /\ items[2].ok /\ items[2].src = 2

\* C8: a server-initiated close frame yields no item, and no item (snapshot
\* or error) is delivered after it.
C8_CloseEndsCleanly ==
    \A c \in 1..Len(frames) :
        frames[c] = CloseFrame =>
            \A j \in 1..Len(items) : items[j].src < c

\* C9: a transport-level error is delivered as exactly one error item, and
\* that item is the last item of the sequence.
C9_TransportErrorIsLastItem ==
    \A i \in 1..Len(frames) :
        ~frames[i].ok =>
            /\ ItemsOf(i) = {Len(items)}
            /\ ~Last(items).ok
            /\ Last(items).err = "WebSocketError"

\* C9 witness: a snapshot was delivered, then the transport failed and the
\* sequence ended.
C9_Witness ==
    /\ pc = "done"
    /\ Len(frames) = 2
    /\ WellFormedText(frames[1])
    /\ ~frames[2].ok
    /\ Len(items) = 2

\* The item a text frame with body b is delivered as.
TextItem(b) ==
    IF ApiResponse(b).ok
    THEN SnapshotItem(ApiResponse(b).data)
    ELSE ErrorItem("ResponseParseError")

\* The items delivered for frames (all but a transport error's item).
FrameItems == SelectSeq(items, LAMBDA it : frames[it.src].ok)

\* C10: binary, ping and pong frames produce no item, and the items
\* delivered for frames are exactly those of the text frames: one per text
\* frame, in arrival order.
C10_OnlyTextFramesYieldItems ==
    /\ \A i \in 1..Len(frames) :
           (frames[i].ok /\ frames[i].t \in {"binary", "ping", "pong"}) => ItemsOf(i) = {}
    /\ Len(FrameItems) = Cardinality({i \in 1..Len(frames) : frames[i].t = "text"})
    /\ \A j \in 1..Len(FrameItems) :
           /\ frames[FrameItems[j].src].t = "text"
           /\ FrameItems[j] = Delivered(TextItem(frames[FrameItems[j].src].body),
                                        FrameItems[j].src)
           /\ j > 1 => FrameItems[j - 1].src < FrameItems[j].src

\* C10 witness: text frames interleaved with a ping, two items delivered.
C10_Witness ==
    /\ Len(frames) = 3
    /\ frames[1].t = "text"
    /\ frames[2].t = "ping"
    /\ frames[3].t = "text"
    /\ Len(items) = 2
    /\ items[2].src = 3

\* ------------------------------------------------------- pull versus push
\* The numbers of the delivered items whose snapshot is Success or Failure.
TerminalItems ==
    {j \in 1..Len(items) : items[j].ok /\ items[j].data.status \in {"Success", "Failure"}}

UrlInputs == {ImgHttpUrl, ImgHttpsUrl}

UploadRequests == {i \in 1..Len(requests) : requests[i].endpoint = "upload/sts"}
TaskRequests == {i \in 1..Len(requests) : requests[i].endpoint = "task"}

\* C12: an input starting with http:// or https:// resolves to the
\* descriptor {type: "jpeg", url: input}; no path is probed, no upload
\* request is sent, and the one request image_to_model sends is the
\* task-creation request, carrying that descriptor.
C12_UrlPrefixFirst ==
    (call = "image_to_model" /\ image \in UrlInputs) =>
        /\ probes = <<>>
        /\ UploadRequests = {}
        /\ Len(requests) <= 1
        /\ pc # "resolve" =>
               file_content = FileContent(StrJpeg, NoObject, Some(image), None)
        /\ pc = "done" =>
               /\ Len(requests) = 1
               /\ requests[1].endpoint = "task"
               /\ requests[1].body.type = "image_to_model"
               /\ DOMAIN requests[1].body.file = {"type", "url"}
               /\ requests[1].body.file["type"] = StrJpeg
               /\ requests[1].body.file["url"] = image

C12_Witness ==
    /\ call = "image_to_model" /\ image = ImgHttpUrl /\ files = LocalNames
    /\ pc = "done" /\ submit_result.kind = "Ok"

\* 8-4-4-4-12: five hyphen-separated groups of digits drawn from `digits`.
GroupLengths == <<8, 4, 4, 4, 12>>

RECURSIVE GroupEnd(_)
GroupEnd(g) == IF g = 0 THEN 0 ELSE GroupEnd(g - 1) + GroupLengths[g] + 1

IsHexGroups(str, digits) ==
    /\ Len(str) = GroupEnd(5) - 1
    /\ {i \in 1..Len(str) : str[i] = "-"} = {GroupEnd(g) : g \in 1..4}
    /\ \A i \in 1..Len(str) : str[i] = "-" \/ str[i] \in digits

LowerHexDigits == {"0", "1", "2", "3", "4", "5", "6", "7", "8", "9",
                   "a", "b", "c", "d", "e", "f"}
UpperHexDigits == {"A", "B", "C", "D", "E", "F"}

\* What the operation shows when its input was taken as an opaque token.
TakenAsToken ==
    /\ probes = <<>>
    /\ UploadRequests = {}
    /\ pc # "resolve" =>
           file_content = FileContent(StrJpeg, NoObject, None, Some(image))
    /\ pc = "done" =>
           /\ Len(requests) = 1
           /\ requests[1].endpoint = "task"
           /\ DOMAIN requests[1].body.file = {"type", "file_token"}
           /\ requests[1].body.file["file_token"] = image

\* C13 as stated: every input that is not URL-prefixed and consists of
\* 8-4-4-4-12 hexadecimal groups, in either letter case, is taken as an
\* opaque token with no probe and no upload.
C13_HexGroupsAreTokens ==
    (/\ call = "image_to_model"
     /\ image \notin UrlInputs
     /\ IsHexGroups(image, LowerHexDigits \cup UpperHexDigits)) => TakenAsToken

\* C13, amended: every input that is not URL-prefixed and consists of
\* 8-4-4-4-12 groups of lowercase hexadecimal digits resolves to the
\* descriptor {type: "jpeg", file_token: input}, with no existence check
\* and no upload request, even when a file of that name exists.
C13_LowercaseHexGroupsAreTokens ==
    (/\ call = "image_to_model"
     /\ image \notin UrlInputs
     /\ IsHexGroups(image, LowerHexDigits)) => TakenAsToken

C13_Witness ==
    /\ call = "image_to_model" /\ IsHexGroups(image, LowerHexDigits)
    /\ image \in files
    /\ pc = "done" /\ submit_result.kind = "Ok"

\* The inputs that are neither URL-prefixed nor of the token shape, and the
\* tag each one's extension gives.
LocalPathInputs ==
    {ImgUuidUpper, ImgUuidOneUpper, ImgUuidPng, ImgPng, ImgNoExt, ImgDotDir}

ExpectedTag(path) == IF path \in {ImgPng, ImgUuidPng} THEN StrPng ELSE StrJpeg

\* C14: an input that is neither URL-prefixed nor token-shaped is probed as
\* a path.  When it does not exist the operation fails with IoError(NotFound)
\* and sends nothing.  When it exists it is handed to upload_file, whose
\* multipart request is the first request sent, and the descriptor built
\* from the upload is tagged with the extension, "jpeg" when there is none.
C14_LocalPath ==
    (call = "image_to_model" /\ image \in LocalPathInputs /\ pc # "resolve") =>
        /\ probes = <<image>>
        /\ image \notin files =>
               /\ pc = "done"
               /\ submit_result = SubmitErr("IoError(NotFound)")
               /\ requests = <<>>
        /\ image \in files =>
               /\ submit_result.err # "IoError(NotFound)"
               /\ \/ pc = "upload"
                  \/ submit_result.err = "IoError(open)" /\ requests = <<>>
                  \/ requests # <<>> /\ requests[1].endpoint = "upload/sts"
               /\ pc = "create" =>
                      /\ file_content.type_ = ExpectedTag(image)
                      /\ file_content.file_token = Some(replies[1].body.token)
                      /\ ~file_content.url.some /\ ~file_content.object.some

C14_Witness ==
    /\ call = "image_to_model" /\ image = ImgDotDir /\ image \in files
    /\ pc = "create" /\ file_content.type_ = StrJpeg
    /\ file_content.file_token = Some(TokB)

C14_WitnessMissing ==
    /\ call = "image_to_model" /\ image = ImgPng /\ image \notin files
    /\ pc = "done"

\* ------------------------------------------------------ descriptor claims
\* The variants a descriptor has populated.
Populated(fc) == {k \in {"object", "url", "file_token"} : fc[k].some}

\* C15: every descriptor the resolver produces (from a URL, a token or an
\* uploaded path) and every descriptor upload_file_s3 returns has exactly
\* one of url, file_token and object populated, and its encoding, as sent
\* in the task-creation request, has the keys `type` and that variant's key
\* and no other.
C15_ExactlyOneVariant ==
    /\ (call = "image_to_model" /\ file_content # NoFileContent) =>
           /\ Cardinality(Populated(file_content)) = 1
           /\ Populated(file_content) \subseteq {"url", "file_token"}
           /\ \A i \in TaskRequests :
                  /\ DOMAIN requests[i].body.file = {"type"} \cup Populated(file_content)
                  /\ \A k \in Populated(file_content) :
                         requests[i].body.file[k] = file_content[k].v
    /\ \A c \in Callers :
           s3_result[c].kind = "Ok" =>
               /\ Populated(s3_result[c].fc) = {"object"}
               /\ DOMAIN Serialize(s3_result[c].fc) = {"type", "object"}

C15_Witness ==
    /\ call = "image_to_model" /\ image = ImgPng
    /\ Populated(file_content) = {"file_token"}
    /\ TaskRequests # {}

C15_WitnessObject ==
    \E c \in Callers : Populated(s3_result[c].fc) = {"object"}

\* ------------------------------------------------- upload-then-create claim
\* The upload request was answered 2xx with an upload envelope.
UploadSucceeded ==
    /\ replies # <<>>
    /\ replies[1].kind = "http"
    /\ replies[1].code \in 200..299
    /\ replies[1].body.shape = "upload"

\* C16: for an input that is an existing local file, the multipart upload
\* request is the first request and the task-creation request, if any, the
\* second, sent only when the upload succeeded and carrying the token of the
\* upload response; when the upload fails the operation returns the upload's
\* error and the upload request stays the only request.
C16_UploadThenCreate ==
    (call = "image_to_model" /\ image \in LocalPathInputs /\ image \in files) =>
        /\ Len(requests) <= 2
        /\ UploadRequests \subseteq {1}
        /\ TaskRequests \subseteq {2}
        /\ 2 \in TaskRequests =>
               /\ UploadSucceeded
               /\ requests[2].body.file["file_token"] = replies[1].body.token
        /\ (requests # <<>> /\ ~UploadSucceeded) =>
               /\ pc = "done"
               /\ Len(requests) = 1
               /\ submit_result.kind = "Err"
               /\ submit_result.err =
                      IF replies[1].kind = "send_err" THEN "RequestError(send)"
                      ELSE IF replies[1].code \in 200..299 THEN "RequestError(decode)"
                      ELSE "ApiError"
        /\ (pc = "done" /\ submit_result.kind = "Ok") => Len(requests) = 2

C16_Witness ==
    /\ call = "image_to_model" /\ image = ImgPng /\ image \in files
    /\ pc = "done" /\ submit_result.kind = "Ok"
    /\ Len(requests) = 2
    /\ requests[2].body.file["file_token"] = TokB

C16_WitnessUploadFails ==
    /\ call = "image_to_model" /\ image = ImgPng /\ image \in files
    /\ pc = "done" /\ Len(requests) = 1 /\ submit_result.err = "ApiError"

\* ------------------------------------------------ delegated-storage claims
\* The credential requests of caller c, and the credential sets issued to it.
RequestsOf(c) == {j \in 1..Len(sts_log) : sts_log[j].to = c}
IssuedTo(c) == {j \in RequestsOf(c) : sts_log[j].reply.body.shape = "sts"}
IssuedData(j) == sts_log[j].reply.body.data

\* C17 (state part): each call makes at most one credential request of its
\* own; every put carries exactly the access key, secret key and session
\* token, the bucket and the key that were issued to the call that makes
\* the put; a returned descriptor carries that bucket and key and nothing
\* else.
C17_CredentialsScoped ==
    /\ \A c \in Callers :
           Cardinality(RequestsOf(c)) = IF s3_pc[c] \in {"idle", "token"} THEN 0 ELSE 1
    /\ \A i \in 1..Len(puts) :
           \E j \in IssuedTo(puts[i].by) :
               /\ puts[i].credentials =
                      [access_key |-> IssuedData(j).sts_ak,
                       secret_key |-> IssuedData(j).sts_sk,
                       session_token |-> IssuedData(j).session_token]
               /\ puts[i].bucket = IssuedData(j).resource_bucket
               /\ puts[i].key = IssuedData(j).resource_uri
    /\ \A c \in Callers :
           s3_result[c].kind = "Ok" =>
               \E j \in IssuedTo(c) :
                   s3_result[c].fc =
                       [type_ |-> s3_result[c].fc.type_,
                        object |-> [some |-> TRUE,
                                    v |-> [bucket |-> IssuedData(j).resource_bucket,
                                           key |-> IssuedData(j).resource_uri]],
                        url |-> None, file_token |-> None]

\* C17: credentials are scoped to one upload call (the state part above),
\* and no step of any call changes the client, which has no field to hold
\* a credential.
C17_CredentialsScopedNeverKept ==
    /\ []C17_CredentialsScoped
    /\ [][/\ client' = client
          /\ DOMAIN client = {"client", "base_url", "api_key", "s3_endpoint_override"}
          /\ DOMAIN client.client = {"default_headers"}]_vars

C17_Witness ==
    /\ call = "upload_file_s3"
    /\ Len(sts_log) = 2 /\ sts_log[1].to = 1 /\ sts_log[2].to = 2
    /\ \A j \in 1..2 : sts_log[j].reply.code = 200
    /\ Len(puts) = 2 /\ puts[1].by = 2 /\ puts[2].by = 1
    /\ \A c \in Callers : s3_result[c].kind = "Ok"

\* The credential request of a call failed: no response, or a non-2xx one.
IssuanceFailed(j) ==
    \/ sts_log[j].reply.kind = "send_err"
    \/ sts_log[j].reply.code \notin 200..299

PutsBy(c) == {i \in 1..Len(puts) : puts[i].by = c}

\* C18: when a call's credential request fails in transport or is answered
\* non-2xx, the call returns an error, makes no put and returns no
\* descriptor; when its put fails, it returns ApiError whose message carries
\* the storage client's error.
C18_IssuanceFailureStopsUpload ==
    \A c \in Callers :
        /\ \A j \in RequestsOf(c) :
               IssuanceFailed(j) =>
                   /\ s3_pc[c] = "done"
                   /\ s3_result[c].kind = "Err"
                   /\ PutsBy(c) = {}
        /\ (s3_pc[c] = "done" /\ PutsBy(c) # {} /\ s3_result[c].kind = "Err") =>
               /\ s3_result[c].err = "ApiError"
               /\ s3_result[c].detail \in PutErrors

\* ------------------------------------------------- task-creation error claim
\* The operation has finished and its task-creation request, the last
\* request sent, was answered with a non-2xx status.
CreationRejected ==
    /\ call \in {"text_to_model", "image_to_model", "image_to_3d"}
    /\ pc = "done"
    /\ TaskRequests # {}
    /\ replies[Len(replies)].kind = "http"
    /\ replies[Len(replies)].code \notin 200..299

C19_WitnessJson ==
    /\ CreationRejected /\ call = "image_to_3d"
    /\ replies[1].body.shape = "error"
    /\ submit_result.message.shape = "error"

\* --------------------------------------------------------- download claims
\* The URLs of the snapshot's result files: pbr_model's, then glb_model's.
PbrThenGlb ==
    IF dl_snapshot.pbr_model.some
    THEN IF dl_snapshot.glb_model.some
         THEN <<dl_snapshot.pbr_model.v, dl_snapshot.glb_model.v>>
         ELSE <<dl_snapshot.pbr_model.v>>
    ELSE IF dl_snapshot.glb_model.some
         THEN <<dl_snapshot.glb_model.v>>
         ELSE <<>>

\* The file name each URL that can be downloaded gives.
NameOf(url) ==
    CASE url = UrlPbr -> NamePbr
      [] url \in {UrlGlb, UrlGlbSigned} -> NameGlb
      [] OTHER -> <<"?">>

\* C20: the result files are fetched in the order pbr_model, glb_model (the
\* requests sent so far are the first of that sequence); a successful call
\* returns one path per present file in that order; a snapshot without
\* result files gives Ok with no path and no request.
C20_PbrThenGlb ==
    call = "download_all_models" =>
        /\ Len(dl_requests) <= Len(PbrThenGlb)
        /\ \A i \in 1..Len(dl_requests) : dl_requests[i] = PbrThenGlb[i]
        /\ dl_result.kind = "Ok" =>
               /\ dl_requests = PbrThenGlb
               /\ Len(dl_result.paths) = Len(PbrThenGlb)
               /\ \A i \in 1..Len(PbrThenGlb) : dl_result.paths[i] = NameOf(PbrThenGlb[i])
        /\ (PbrThenGlb = <<>> /\ pc = "done") =>
               /\ dl_result = [kind |-> "Ok", paths |-> <<>>, err |-> "none", status |-> 0]
               /\ dl_requests = <<>>

C20_Witness ==
    /\ call = "download_all_models"
    /\ dl_snapshot.pbr_model = Some(UrlPbr) /\ dl_snapshot.glb_model = Some(UrlGlb)
    /\ dl_result.kind = "Ok"
    /\ dl_result.paths = <<NamePbr, NameGlb>>
    /\ dl_requests = <<UrlPbr, UrlGlb>>

C20_WitnessEmpty ==
    /\ call = "download_all_models" /\ pc = "done"
    /\ ~dl_snapshot.pbr_model.some /\ ~dl_snapshot.glb_model.some
    /\ dl_result.kind = "Ok"

\* The fetch of the result file the call is at was answered non-2xx.
FetchRejected ==
    /\ call = "download_all_models"
    /\ dl_requests # <<>>
    /\ Len(dl_requests) = dl_index
    /\ dl_response.kind = "http"
    /\ dl_response.code \notin 200..299

\* The entries of this call that were downloaded before the one it is at.
Earlier == 1..(dl_index - 1)

\* C21 (state part): a non-2xx answer to a fetch ends the call with ApiError
\* carrying that status code and no path; the rejected fetch is the last
\* request; every name written by an earlier entry of the call holds the
\* full bytes of the last earlier entry with that name.
C21_RejectedFetchAborts ==
    FetchRejected =>
        /\ pc = "done"
        /\ dl_result.kind = "Err"
        /\ dl_result.err = "ApiError"
        /\ dl_result.status = dl_response.code
        /\ dl_result.paths = <<>>
        /\ \A i \in Earlier :
               LET same == {k \in Earlier : NameOf(PbrThenGlb[k]) = NameOf(PbrThenGlb[i])}
                   last == CHOOSE k \in same : \A m \in same : m <= k
               IN  disk[NameOf(PbrThenGlb[i])] = PbrThenGlb[last]

\* C21: the state part, and the step that receives the non-2xx answer
\* touches no file (nothing is created for the failing entry, nothing
\* downloaded earlier is removed), and the call takes no step after it (the
\* only step from there is the caller's next call).
C21_RejectedFetchAbortsNoRollback ==
    /\ []C21_RejectedFetchAborts
    /\ [][/\ FetchRejected' => disk' = disk
          /\ FetchRejected => dl_calls' = dl_calls + 1]_vars

C21_Witness ==
    /\ FetchRejected
    /\ dl_index = 2
    /\ dl_response.code = 404
    /\ dl_result.status = 404
    /\ disk[NamePbr] = UrlPbr
    /\ downloaded_files = <<NamePbr>>

\* C22: when download_all_models succeeded and is called again with the
\* same snapshot and destination, a successful later call leaves every name
\* of the directory as the first call left it (present or not, and with the
\* same content) and returns the same paths.
C22_DownloadIdempotent ==
    (/\ call = "download_all_models"
     /\ dl_calls >= 2
     /\ dl_first.result.kind = "Ok"
     /\ dl_result.kind = "Ok") =>
        /\ \A n \in DOMAIN disk : disk[n] = dl_first.disk[n]
        /\ DOMAIN disk = DOMAIN dl_first.disk
        /\ dl_result.paths = dl_first.result.paths

C22_Witness ==
    /\ call = "download_all_models" /\ dl_calls = 2
    /\ dl_first.result.kind = "Ok" /\ dl_result.kind = "Ok"
    /\ dl_result.paths = <<NameGlb, NameGlb>>
    /\ disk[NameGlb] = UrlGlbSigned
    /\ disk[NamePbr] = <<"old">>

\* The contents a complete file can have: what was there before the call,
\* or all the bytes served at some URL.
CompleteContents == {<<"old">>} \cup {u : u \in Urls}

\* C23: at every step of a download, what a reader of a destination path
\* finds is no file, the previous complete content, or the complete
\* downloaded bytes, never an empty or truncated file.
C23_ReaderNeverSeesPartial ==
    call = "download_all_models" =>
        \A n \in DOMAIN disk : disk[n] = <<"absent">> \/ disk[n] \in CompleteContents

\* ------------------------------------------------------ credential claims
\* The key construction resolves: the argument, else the environment's.
KeyGiven == ctor_args.api_key.some \/ ctor_args.env.some

ExpectedKey ==
    IF ctor_args.api_key.some THEN ctor_args.api_key.v ELSE ctor_args.env.v

\* The header `Authorization: Bearer <key>`.
AuthorizationBearer(key) ==
    [some |-> TRUE, v |-> [scheme |-> "Bearer", key |-> key]]

ToService == {i \in 1..Len(sent) : sent[i].op # "download_model"}

\* C24 (state part): without a resolvable key construction fails with
\* MissingApiKey and nothing is ever sent; a constructed client holds the
\* resolved key and the given base address, and every HTTP request and
\* every WebSocket upgrade request it sent to the service went to that
\* address with `Authorization: Bearer <key>`.
C24_BearerOnEveryRequest ==
    call = "new_with_url" =>
        /\ ~KeyGiven => (pc \in {"new", "MissingApiKey"} /\ sent = <<>>)
        /\ pc # "ready" => sent = <<>>
        /\ pc = "ready" =>
               /\ KeyGiven
               /\ client.api_key = ExpectedKey
               /\ client.base_url = ctor_args.base_url
        /\ \A i \in ToService :
               /\ sent[i].authorization = AuthorizationBearer(ExpectedKey)
               /\ sent[i].host = url_host(ctor_args.base_url)

\* C24: the state part, and no step after construction changes the key,
\* the base address or the headers of the transport.
C24_BearerFixedAtConstruction ==
    /\ []C24_BearerOnEveryRequest
    /\ [][pc = "ready" =>
              /\ client'.api_key = client.api_key
              /\ client'.base_url = client.base_url
              /\ client'.client = client.client]_vars

C24_Witness ==
    /\ call = "new_with_url" /\ pc = "ready"
    /\ ~ctor_args.api_key.some /\ ctor_args.env.some
    /\ client.s3_endpoint_override.some
    /\ Len(sent) = 3
    /\ sent[1].transport = "websocket" /\ sent[2].transport = "http"
    /\ sent[3].op = "upload_file_s3"

C24_WitnessMissingKey ==
    call = "new_with_url" /\ pc = "MissingApiKey"

\* C29: the fetch of a result file is sent with the client's
\* `Authorization: Bearer <key>` header, whatever host the file's URL
\* names.
C29_DownloadCarriesBearer ==
    call = "new_with_url" =>
        \A i \in 1..Len(sent) :
            sent[i].op = "download_model" =>
                /\ sent[i].transport = "http"
                /\ sent[i].authorization = AuthorizationBearer(ExpectedKey)

C29_Witness ==
    /\ call = "new_with_url"
    /\ \E i \in 1..Len(sent) :
           /\ sent[i].op = "download_model"
           /\ sent[i].host # url_host(client.base_url)
           /\ sent[i].authorization.some

\* ---------------------------------------------------------- observer claims
\* The status queries of the call that were answered with a snapshot, and
\* among them those with a Pending or Running one.
Fetched == {i \in 1..Len(served) : AnswersSnapshot(served[i])}
FetchedNonTerminal == {i \in 1..Len(served) : AnswersNonTerminal(served[i])}

\* The snapshots of the queries in idx, in query order.
RECURSIVE SnapshotsAt(_, _)
SnapshotsAt(idx, i) ==
    IF i > Len(served) THEN <<>>
    ELSE (IF i \in idx THEN <<ApiResponse(served[i].body).data>> ELSE <<>>)
         \o SnapshotsAt(idx, i + 1)

\* C26 as stated: in verbose mode the observer gets exactly the Pending and
\* Running snapshots fetched, in fetch order, and not the terminal one;
\* with verbose off it gets nothing.
C26_EmitsNonTerminalOnly ==
    call = "wait_for_task" =>
        printed = IF verbose THEN SnapshotsAt(FetchedNonTerminal, 1) ELSE <<>>

\* C26, amended: in verbose mode the observer gets every snapshot fetched,
\* the terminal one included, in fetch order, each as soon as it is fetched
\* (so before the suspension or the return that follows it); with verbose
\* off it gets nothing.
C26_EmitsEveryFetchedSnapshot ==
    call = "wait_for_task" =>
        /\ printed = IF verbose THEN SnapshotsAt(Fetched, 1) ELSE <<>>
        /\ (verbose /\ wait_result.kind = "Ok") =>
               printed[Len(printed)] = wait_result.data

C26_Witness ==
    /\ call = "wait_for_task" /\ verbose
    /\ wait_result.kind = "Ok"
    /\ Len(served) = 3 /\ Len(printed) = 3
    /\ printed[3].status = "Success"

C26_WitnessQuiet ==
    /\ call = "wait_for_task" /\ ~verbose
    /\ wait_result.kind = "Ok" /\ Len(served) = 2

\* ------------------------------------------------- concurrent trackers
\* The answer decodes to a snapshot in a terminal state.
TrTerminal(r) == get_task(r).ok /\ IsTerminal(get_task(r).data.status)

\* The answer decodes to a snapshot in a non-terminal state.
TrNonTerminal(r) == get_task(r).ok /\ ~IsTerminal(get_task(r).data.status)

\* What a wait_for_task call for task_id has to return given only the
\* answers to its own queries: nothing yet, the snapshot of the last answer
\* when that is the first terminal one, or the error of the last answer.
OwnOutcome(task_id, own, at) ==
    IF own = <<>> \/ at \in {"match", "sleep", "get_task"}
    THEN [kind |-> "None", data |-> NoTaskStatus, err |-> "none"]
    ELSE IF get_task(Last(own)).ok
         THEN [kind |-> "Ok", data |-> TaskStatus(task_id, get_task(Last(own)).data),
               err |-> "none"]
         ELSE [kind |-> "Err", data |-> NoTaskStatus, err |-> get_task(Last(own)).err]

\* Each call stands where the answers to its own queries put it, and has
\* returned what they determine.
C25_OwnAnswersDecide ==
    \A t \in Trackers :
        LET tr == trackers[t]
            n == Len(tr.served)
        IN /\ \A i \in 1..n : tr.served[i].task = TaskIds[t]
           /\ \A i \in 1..(n - 1) : TrNonTerminal(tr.served[i])
           /\ tr.result = OwnOutcome(TaskIds[t], tr.served, tr.pc)
           /\ tr.pc = "done" => (n > 0 /\ ~TrNonTerminal(tr.served[n]))
           /\ tr.pc = "match" => (n > 0 /\ get_task(tr.served[n]).ok)
           /\ tr.pc = "sleep" => (n > 0 /\ TrNonTerminal(tr.served[n]))
           /\ tr.pc = "get_task" => \A i \in 1..n : TrNonTerminal(tr.served[i])
           /\ tr.result.kind = "Ok" => /\ TrTerminal(tr.served[n])
                                       /\ tr.result.data.task_id = TaskIds[t]

\* C25: when two wait_for_task calls for different task ids run concurrently
\* on one client, under every interleaving each call returns the first
\* terminal snapshot of its own task, and no step of one call (a failed fetch
\* included) ends or alters the other call.
C25_TrackersDoNotInterfere ==
    /\ []C25_OwnAnswersDecide
    /\ [][\A t \in Trackers : \A u \in Trackers \ {t} :
            trackers'[t] # trackers[t] => trackers'[u] = trackers[u]]_vars

\* C25 witness: the first call's second fetch failed, and the second call,
\* after one more fetch than the first made, returned its own task's Failure
\* snapshot.
C25_Witness ==
    /\ call = "wait_for_task x2"
    /\ trackers[1].result.kind = "Err"
    /\ Len(trackers[1].served) = 2
    /\ trackers[2].result.kind = "Ok"
    /\ Len(trackers[2].served) = 3
    /\ trackers[2].result.data = TaskStatus("task-b", [status |-> "Failure", progress |-> 100])

\* ------------------------------------------------ push mode, terminal state
\* The text frame carries a snapshot in state Success or Failure.
TerminalText(m) == WellFormedText(m) /\ IsTerminal(ApiResponse(m.body).data.status)

\* C27: the push-mode sequence applies no terminal rule of its own: a
\* snapshot in state Success or Failure is delivered like any other, the
\* sequence does not end on it, every later text frame of the connection is
\* still delivered as its item, and the sequence ends only after the
\* connection's close frame or transport error.
C27_NoTerminalRule ==
    /\ \A i \in 1..Len(frames) :
           TerminalText(frames[i]) =>
               /\ \E j \in 1..Len(items) :
                      /\ ItemsOf(i) = {j}
                      /\ items[j] = Delivered(SnapshotItem(ApiResponse(frames[i].body).data), i)
               /\ (i = Len(frames) => pc = "streaming" /\ ws_stream = "open")
               /\ \A k \in (i + 1)..Len(frames) :
                      frames[k].t = "text" =>
                          \E j \in 1..Len(items) :
                              /\ ItemsOf(k) = {j}
                              /\ items[j] = Delivered(TextItem(frames[k].body), k)
    /\ (call = "watch_task" /\ pc = "done") =>
           /\ ws_stream = "ended"
           /\ frames # <<>>
           /\ Last(frames) = CloseFrame \/ ~Last(frames).ok

\* C27 witness: a Success snapshot was delivered, and after it a Running and
\* a Failure snapshot of the same connection were delivered too, the
\* sequence still being open.
C27_Witness ==
    /\ call = "watch_task"
    /\ pc = "streaming"
    /\ Len(frames) = 3
    /\ frames[1] = TextFrame(Envelope("success", 100))
    /\ frames[2] = TextFrame(Envelope("running", 50))
    /\ frames[3] = TextFrame(Envelope("failure", 100))
    /\ Len(items) = 3
    /\ items[1].data.status = "Success"
    /\ items[2].data.status = "Running"
    /\ items[3].data.status = "Failure"

\* ------------------------------------------- downloads and snapshot state
\* The names in the destination directory the calls so far wrote to.
Written == {n \in FileNames : disk[n] \notin {Absent, Old}}

\* C28: download_all_models does not inspect the snapshot's state: whatever
\* the state, it requests the result files the snapshot carries and nothing
\* else, it stops short of one only with the error of a fetch, and a
\* successful call has requested and written every file the snapshot carries.
C28_StateNotInspected ==
    call = "download_all_models" =>
        /\ dl_snapshot.status \in {"Pending", "Running", "Failure", "Success"}
        /\ \A i \in 1..Len(dl_requests) :
               i <= Len(PbrThenGlb) /\ dl_requests[i] = PbrThenGlb[i]
        /\ Written \subseteq {NameOf(PbrThenGlb[i]) : i \in 1..Len(PbrThenGlb)}
        /\ pc = "done" =>
               \/ /\ dl_result.kind = "Ok"
                  /\ dl_requests = PbrThenGlb
                  /\ Written = {NameOf(PbrThenGlb[i]) : i \in 1..Len(PbrThenGlb)}
               \/ /\ dl_result.kind = "Err"
                  /\ dl_result.err \in {"UrlParseError", "RequestError(send)",
                                        "ApiError", "IoError", "RequestError(body)"}
                  /\ PbrThenGlb # <<>>

\* C28 witness: a Failure snapshot carrying both files had both fetched and
\* written.
C28_Witness ==
    /\ call = "download_all_models" /\ pc = "done"
    /\ dl_snapshot = [status |-> "Failure", pbr_model |-> Some(UrlPbr),
                      glb_model |-> Some(UrlGlb)]
    /\ dl_result.kind = "Ok"
    /\ dl_requests = <<UrlPbr, UrlGlb>>
    /\ disk[NamePbr] = ServedBytes(UrlPbr)
    /\ disk[NameGlb] = ServedBytes(UrlGlb)

\* C28 witness: the same for a Pending snapshot carrying one file.
C28_WitnessPending ==
    /\ call = "download_all_models" /\ pc = "done"
    /\ dl_snapshot = [status |-> "Pending", pbr_model |-> None,
                      glb_model |-> Some(UrlGlb)]
    /\ dl_result.kind = "Ok"
    /\ dl_requests = <<UrlGlb>>
    /\ disk[NameGlb] = ServedBytes(UrlGlb)

\* ------------------------------------------------ letter case of a token
\* C30: token classification is case-sensitive.  Only an input of 8-4-4-4-12
\* lowercase hexadecimal groups is put into a descriptor as file_token
\* without a probe of the filesystem;
\* an input of that shape with an uppercase hex digit, one or several, is
\* probed as a local path, is never a token, and fails with
\* IoError(NotFound), sending nothing, when no such file exists.
C30_TokenCaseSensitive ==
    call = "image_to_model" =>
        /\ (probes = <<>> /\ file_content.file_token.some) =>
               /\ IsHexGroups(image, LowerHexDigits)
               /\ file_content.file_token = Some(image)
        /\ (/\ pc # "resolve"
            /\ IsHexGroups(image, LowerHexDigits \cup UpperHexDigits)
            /\ ~IsHexGroups(image, LowerHexDigits)) =>
               /\ probes = <<image>>
               /\ file_content.file_token # Some(image)
               /\ image \notin files =>
                      /\ pc = "done"
                      /\ submit_result = SubmitErr("IoError(NotFound)")
                      /\ requests = <<>>

\* C30 witness: the token shape with a single uppercase digit, no such file:
\* probed, NotFound.
C30_Witness ==
    /\ call = "image_to_model"
    /\ image = ImgUuidOneUpper
    /\ image \notin files
    /\ probes = <<ImgUuidOneUpper>>
    /\ pc = "done"
    /\ submit_result = SubmitErr("IoError(NotFound)")

\* C30 witness: the all-uppercase spelling names an existing file and is
\* uploaded as one.
C30_WitnessUploaded ==
    /\ call = "image_to_model"
    /\ image = ImgUuidUpper
    /\ image \in files
    /\ probes = <<ImgUuidUpper>>
    /\ UploadRequests # {}
    /\ pc = "done" /\ submit_result.kind = "Ok"

====
